---- MODULE Spec2Model ----
(***************************************************************************)
(* A model of the Solana swap indexer: the RPC poller and its signature    *)
(* cursor, the orchestrator's fan-out (ProcessSwap) into the Redis cache,  *)
(* the ClickHouse store and the pub/sub channel, the Redis flag store, and *)
(* the NL->SQL agent with its SQL sanitizer and validator.                 *)
(*                                                                         *)
(* Signatures are the naturals 1..MaxSig in chain order: a larger number   *)
(* is a newer transaction.  The empty cursor "" is 0.                      *)
(***************************************************************************)
EXTENDS Integers, Sequences, FiniteSets, TLC

\* ------------------------------------------------------------------ bounds
\* Number of transactions the watched program ever has on chain.
MaxSig == 5
\* Number of failures in one run: failed external calls (RPC, Redis,
\* ClickHouse) and process crashes.
MaxFaults == 2
\* Number of AddRecentSwap calls the concurrent cache writers make.
MaxPushes == 3
\* Wall-clock instants the flag store's time.Now() can take.
MaxClock == 2

\* the largest DailyLimitSOL a RiskManager is configured with, in SOL
MaxDailyLimit == 2

\* the hours the swap engine is watched for, in units of HoursPerUnit
MaxRiskTime == 3

\* the swaps recorded on one RiskManager
MaxRecorded == 4

\* the requests the API serves at once
MaxRequests == 3

\* the entries swaps:recent holds when it is read
MaxEntries == 3

\* the largest price an UpdatePrice call writes
MaxPrice == 10

\* the messages the client library holds for the subscription
MaxInFlight == 2

\* the largest uiAmount of a token balance
MaxAmount == 1

\* the largest RETRY_BACKOFF a client is configured with, in time units
MaxBackoff == 2

\* the largest MAX_RETRIES a client is configured with
MaxRetries == 2

\* the Start calls made on one poller
MaxStarts == 2

\* the seconds the API's clock runs
MaxTime == 5

\* the requests to /v1/ai/ask that reach the limiter
MaxAsks == 4

\* ------------------------------------------------------- program constants
\* constants.SignatureBatchSize
SignatureBatchSize == 3
\* constants.MaxRecentSwaps
MaxRecentSwaps == 100
\* Handlers.RecentSwaps: the largest limit the API passes to GetRecentSwaps
RecentLimitMax == 200

VARIABLES
    \* --- the chain, as the RPC endpoint reports it
    chain,          \* number of signatures on chain; the tip is signature `chain`
    txKind,         \* what each transaction is: "swap", "failed" (err non-null), "other"
    faults,         \* number of external calls that have failed so far
    \* --- RPCPoller fields and the position of its Start loop
    lastSignature,  \* RPCPoller.lastSignature (0 is "")
    running,        \* RPCPoller.running
    cancelled,      \* the ctx passed to Start has been cancelled
    pc,             \* position of the Start / poll / ProcessSwap code
    batch,          \* sigResp.Result of the tick in progress (newest first)
    idx,            \* loop index into batch (1-based)
    hswap,          \* signature of the swap handed to the handler (0 when none)
    hlog,           \* the sink calls ProcessSwap has made for hswap, in order
    hret,           \* ProcessSwap's return for hswap: "none", "ok", "err"
    \* --- external sinks
    ring,           \* Redis list swaps:recent (head first)
    prices,         \* Redis keys price:<TOKEN>
    lastUpdate,     \* per token: the price of the most recent UpdatePrice that succeeded
    store,          \* ClickHouse table swaps: rows per signature
    \* --- history of the poller
    baseline,       \* the cursor recorded by the first non-empty tick (0: none yet)
    fetched,        \* signatures getTransaction was called for
    errSkipped,     \* signatures skipped because their err field was non-null
    aborted,        \* signatures of batches whose tick was aborted mid-batch
    abortedRun,     \* the same, within the current process only
    lateFetch,      \* signatures fetched by a tick later than one aborted on them
    lateFetchRun,   \* the same, within the current process only
    dropped,        \* signatures whose getTransaction failed or that the decoder rejected
    refetched,      \* signatures fetched after they had been dropped
    \* --- concurrent callers of RedisCache.AddRecentSwap
    wpc,            \* per writer: "idle", or "trim" (LPUSH done, LTRIM to come)
    pushes,         \* AddRecentSwap calls made so far
    \* --- the flag store
    rdb,            \* Redis keys flags:index and flags:<key>
    clock,          \* time.Now().UTC()
    lastWrite,      \* per flag key: what the last Upsert / Delete of it returned
    flagRet,        \* the last Upsert / Delete call: its name, its key and its error
    \* --- the NL->SQL agent
    apc,            \* position of Agent.Ask: "idle", "generate", "run", "summarise", "returned"
    llmResp,        \* the LLM's response to the SQL prompt of the Ask in progress
    sqlQuery,       \* what generateSQL returned to Ask
    askErr,         \* the error Ask returned ("" is nil)
    executed,       \* every SQL string handed to db.QueryContext
    ranQuery,       \* the Ask in progress has called runQuery
    ranSummary,     \* the Ask in progress has called summariseResult
    \* --- direct calls of validateSQL
    vin,            \* the argument of the last call
    vout,           \* its result: "none" before any call, "" for nil, else the error
    \* --- the HTTP handler AIAsk
    devMode,        \* Handlers.DevMode
    aiResp,         \* the response AIAsk wrote for the last request
    \* --- the HTTP middleware chain
    apiKey,         \* cfg.APIKey
    now,            \* the server's time, in seconds
    visitors,       \* RateLimiterMemoryStore.visitors: per client, the limiter
    askLog,         \* the /v1/ai/ask requests that reached the limiter, in order
    lastResp,       \* the last request and the response it got
    \* --- Start and Stop calls on one RPCPoller
    lpc,            \* per Start call: its position
    lctx,           \* per Start call: its ctx has been cancelled
    llast,          \* per Start call: poll's local lastSig
    lbatch,         \* per Start call: sigResp.Result of its tick in progress
    lidx,           \* per Start call: loop index into lbatch
    stopped,        \* a Stop call has returned
    afterStop,      \* what the poller did after Stop returned
    \* --- one Client.Call
    maxRetries,     \* Client.maxRetries
    attempt,        \* the loop variable of Call
    rpcPc,          \* position of Call: "idle", "wait", "request", "returned"
    requests,       \* the outcome of every doRequest of this Call, in order
    lastErr,        \* Call's lastErr ("" is nil)
    rpcCtxDone,     \* the ctx passed to Call has been cancelled
    rpcRet,         \* what Call returned: "none", "nil", or the error
    retryBackoff,   \* Client.retryBackoff
    backoff,        \* Call's local backoff
    waits,          \* the waits of this Call that ran to their end, in order
    waitCancelled,  \* the ctx was cancelled while Call was waiting before a retry
    \* --- parseTransaction on one transaction
    dmeta,          \* what getTransaction gave: the state of the result and its token balances
    dpc,            \* "ready", "parsed", "done"
    dres,           \* what parseTransaction returned
    dhandled,       \* the events handed to the handler
    \* --- one SubscribeSwaps call and its forwarding goroutine
    subPc,          \* "nosub", "failed", "select", "send", "unsub", "close", "exited"
    subCtxDone,     \* the ctx given to SubscribeSwaps has been cancelled
    pubsubOpen,     \* the Redis subscription is held
    inflight,       \* messages published and not yet taken by the goroutine, oldest first
    inhand,         \* the message the goroutine has taken ("" when none)
    buffered,       \* the number of events in swapChan
    closes,         \* how many times swapChan has been closed
    sentAfterClose, \* an event was sent on swapChan after it was closed
    lastFwd,        \* what became of the last message taken: "none", "sent", "dropped", "skipped"
    everDropped,    \* an event has been dropped at a full swapChan
    \* --- one read of the cache: GetRecentSwaps, or Handlers.Price with its GetPrice
    rdPc,           \* "idle", or "done" once the call has returned
    rdCall,         \* the call made: its name and its argument
    rdReply,        \* what Redis answered to the call's command
    rdOut,          \* what the call returned: the events, or the price
    rdErr,          \* the error the call returned ("" is nil)
    rdStatus,       \* the HTTP status Handlers.Price answered (0 when none)
    \* --- the API process (cmd/api main) around its shutdown
    apiMain,        \* main: "serving" (inside srv.Start) or "exited" (the process is gone)
    sigPc,          \* the signal goroutine: "waiting" (<-sigCh), "shutdown" (in srv.Shutdown), "done"
    reqs,           \* requests in flight
    waited,         \* seconds since Shutdown began
    srvClosed,      \* s.closed has been closed
    cutOff,         \* requests that were in flight when the process exited
    \* --- the indexer process (cmd/indexer main)
    connsClosed,    \* main's deferred indexer.Close() has closed the cache and the store
    \* --- the swap engine's RiskManager and the ExecuteSwap calls on it
    dailyLimit,     \* RiskConfig.DailyLimitSOL
    trackerSwaps,   \* DailyLimitTracker.swaps
    riskNow,        \* time.Now()
    epc,            \* per ExecuteSwap call: "idle", "checked", "recording", or how the
                    \* last call ended: "rejected", "failed", "done"
    seen,           \* per call in RecordSwap: the t.swaps it read for its append
    recorded,       \* every swapRecord a RecordSwap call has made, in order
    \* --- a Store.List call
    listPc,         \* its position: "idle", "mget" (SMEMBERS done), "done"
    listKeys,       \* the members SMEMBERS returned
    listOut,        \* the flags returned, each with the index member it was read for
    listErr         \* the error returned ("" is nil)

envVars == <<chain, txKind, faults>>
pollerVars == <<lastSignature, running, cancelled, pc, batch, idx, hswap, hlog, hret>>
sinkVars == <<ring, prices, lastUpdate, store>>
histVars == <<baseline, fetched, errSkipped, aborted, abortedRun, lateFetch, lateFetchRun,
             dropped, refetched>>
pipelineVars == <<envVars, pollerVars, sinkVars, histVars>>
writerVars == <<wpc, pushes>>
flagVars == <<rdb, clock, lastWrite, flagRet>>
agentVars == <<apc, llmResp, sqlQuery, askErr, executed, ranQuery, ranSummary>>
validatorVars == <<vin, vout>>
handlerVars == <<devMode, aiResp>>
apiVars == <<apiKey, now, visitors, askLog, lastResp>>
lifeVars == <<lpc, lctx, llast, lbatch, lidx, stopped, afterStop>>
decoderVars == <<dmeta, dpc, dres, dhandled>>
subVars == <<subPc, subCtxDone, pubsubOpen, inflight, inhand, buffered, closes, sentAfterClose,
            lastFwd, everDropped>>
riskVars == <<dailyLimit, trackerSwaps, riskNow, epc, seen, recorded>>
listVars == <<listPc, listKeys, listOut, listErr>>
mainVars == <<connsClosed>>
stopVars == <<apiMain, sigPc, reqs, waited, srvClosed, cutOff>>
readVars == <<rdPc, rdCall, rdReply, rdOut, rdErr, rdStatus>>
backoffVars == <<retryBackoff, backoff, waits, waitCancelled>>
rpcVars == <<maxRetries, attempt, rpcPc, requests, lastErr, rpcCtxDone, rpcRet, backoffVars>>

\* What each component's steps leave alone.
pipelineFrame == <<writerVars, flagVars, agentVars, validatorVars, handlerVars, apiVars,
                   lifeVars, rpcVars, decoderVars, subVars, readVars, stopVars, mainVars, riskVars, listVars>>
writerFrame == <<chain, txKind, pollerVars, prices, lastUpdate, store, histVars, flagVars, agentVars,
                 validatorVars, handlerVars, apiVars, lifeVars, rpcVars, decoderVars, subVars, readVars, stopVars, mainVars, riskVars, listVars>>
flagFrame == <<chain, txKind, pollerVars, sinkVars, histVars, writerVars, agentVars,
               validatorVars, handlerVars, apiVars, lifeVars, rpcVars, decoderVars, subVars, readVars, stopVars, mainVars, riskVars, listVars>>
agentFrame == <<chain, txKind, pollerVars, sinkVars, histVars, writerVars, flagVars,
                validatorVars, handlerVars, apiVars, lifeVars, rpcVars, decoderVars, subVars, readVars, stopVars, mainVars, riskVars, listVars>>
validatorFrame == <<pipelineVars, writerVars, flagVars, agentVars, handlerVars, apiVars,
                    lifeVars, rpcVars, decoderVars, subVars, readVars, stopVars, mainVars, riskVars, listVars>>
handlerFrame == <<chain, txKind, pollerVars, sinkVars, histVars, writerVars, flagVars,
                  validatorVars, apiVars, lifeVars, rpcVars, decoderVars, subVars, readVars, stopVars, mainVars, riskVars, listVars>>
apiFrame == <<pipelineVars, writerVars, flagVars, agentVars, validatorVars, handlerVars,
              lifeVars, rpcVars, decoderVars, subVars, readVars, stopVars, mainVars, riskVars, listVars>>
lifeFrame == <<txKind, cancelled, pc, batch, idx, hswap, hlog, hret, sinkVars, histVars,
               writerVars, flagVars, agentVars, validatorVars, handlerVars, apiVars, rpcVars, decoderVars, subVars, readVars, stopVars, mainVars, riskVars, listVars>>
rpcFrame == <<pipelineVars, writerVars, flagVars, agentVars, validatorVars, handlerVars,
              apiVars, lifeVars, decoderVars, subVars, readVars, stopVars, mainVars, riskVars, listVars>>
decoderFrame == <<pipelineVars, writerVars, flagVars, agentVars, validatorVars, handlerVars,
                  apiVars, lifeVars, rpcVars, subVars, readVars, stopVars, mainVars, riskVars, listVars>>
subFrame == <<chain, txKind, pollerVars, sinkVars, histVars, writerVars, flagVars, agentVars,
              validatorVars, handlerVars, apiVars, lifeVars, rpcVars, decoderVars, readVars, stopVars, mainVars, riskVars, listVars>>
readFrame == <<chain, txKind, pollerVars, store, histVars, writerVars, flagVars, agentVars,
               validatorVars, handlerVars, apiVars, lifeVars, rpcVars, decoderVars, subVars, stopVars, mainVars, riskVars, listVars>>
stopFrame == <<pipelineVars, writerVars, flagVars, agentVars, validatorVars, handlerVars,
               apiVars, lifeVars, rpcVars, decoderVars, subVars, readVars, mainVars, riskVars, listVars>>
mainFrame == <<writerVars, flagVars, agentVars, validatorVars, handlerVars, apiVars,
               lifeVars, rpcVars, decoderVars, subVars, readVars, stopVars, riskVars, listVars>>
riskFrame == <<pipelineVars, writerVars, flagVars, agentVars, validatorVars, handlerVars,
               apiVars, lifeVars, rpcVars, decoderVars, subVars, readVars, stopVars, mainVars, listVars>>
listFrame == <<chain, txKind, pollerVars, sinkVars, histVars, writerVars, agentVars,
               validatorVars, handlerVars, apiVars, lifeVars, rpcVars, decoderVars, subVars,
               readVars, stopVars, mainVars, riskVars>>

Writers == {"w1", "w2"}

Sigs == 1..MaxSig

Min(a, b) == IF a < b THEN a ELSE b

SeqToSet(s) == {s[i] : i \in 1..Len(s)}

\* ------------------------------------------------------------ chain content
\* The chains the model runs on: every transaction a swap, or a chain with
\* a failed transaction and a non-swap transaction among the swaps.
AllSwaps == [s \in Sigs |-> "swap"]
Mixed == [s \in Sigs |-> IF s % 5 = 3 THEN "failed" ELSE IF s % 5 = 0 THEN "other" ELSE "swap"]
Chains == {AllSwaps, Mixed}

\* The decoded content of transaction s (fixed by the chain, not by the code).
Tokens == {"SOL", "USDC"}
TokenOutOf(s) == IF s % 2 = 0 THEN "SOL" ELSE "USDC"
PriceOf(s) == s

\* models.SwapEvent, as parseTransaction builds it for signature s
SwapEvent(s) == [signature |-> s, token_out |-> TokenOutOf(s), price |-> PriceOf(s)]

\* An entry left in swaps:recent by an earlier run of the indexer.
OldSwap == [signature |-> 0, token_out |-> "SOL", price |-> 1]

\* json.Marshal / json.Unmarshal of a SwapEvent
Marshal(swap) == <<"json", swap.signature, swap.token_out, swap.price>>
Unmarshal(d) == [signature |-> d[2], token_out |-> d[3], price |-> d[4]]

\* An entry of swaps:recent that json.Unmarshal rejects (Redis is shared:
\* another program or an operator may have pushed it).
Malformed == <<"notjson">>
Decodable(d) == d[1] = "json"

\* What a Redis key holds: nothing, a string, or a set.
NoValue == [type |-> "none"]
StringValue(v) == [type |-> "string", val |-> v]
SetValue(m) == [type |-> "set", members |-> m]

\* The tokens a price may be asked for: those the indexer sees, and one it
\* never sees.
PriceKeys == Tokens \cup {"XYZ", "9xQe...VFin"}

\* go-redis writes a float64 argument of SET with strconv.AppendFloat(b, v,
\* 'f', -1, 64); GetPrice reads it back with strconv.ParseFloat(val, 64).
\* Prices here are whole numbers, written in decimal digits.
DigitChars == "0123456789"
DigitValue(c) == (CHOOSE i \in 1..Len(DigitChars) : SubSeq(DigitChars, i, i) = c) - 1
IsDigits(str) ==
    /\ str # ""
    /\ \A i \in 1..Len(str) : \E j \in 1..Len(DigitChars) :
          SubSeq(str, i, i) = SubSeq(DigitChars, j, j)

RECURSIVE FormatFloat(_)
FormatFloat(v) ==
    IF v < 10 THEN SubSeq(DigitChars, v + 1, v + 1)
    ELSE FormatFloat(v \div 10) \o SubSeq(DigitChars, (v % 10) + 1, (v % 10) + 1)

RECURSIVE DigitsValue(_)
DigitsValue(str) ==
    IF str = "" THEN 0
    ELSE 10 * DigitsValue(SubSeq(str, 1, Len(str) - 1))
           + DigitValue(SubSeq(str, Len(str), Len(str)))

ParseFloat(str) ==
    IF IsDigits(str) THEN [ok |-> TRUE, val |-> DigitsValue(str)]
    ELSE [ok |-> FALSE, val |-> 0]

\* Redis SET price:<token> as UpdatePrice issues it, and the record of it
SetPrice(db, token, price) == [db EXCEPT ![token] = StringValue(FormatFloat(price))]
Updated(upd, token, price) == [upd EXCEPT ![token] = [set |-> TRUE, price |-> price]]

\* An external call may fail while the run's fault budget lasts.
Outcomes == IF faults < MaxFaults THEN {TRUE, FALSE} ELSE {TRUE}
Fault(ok) == faults' = IF ok THEN faults ELSE faults + 1

\* A call on the cache or the store: on a closed connection it fails.
SinkOutcomes == IF connsClosed THEN {FALSE} ELSE Outcomes
SinkFault(ok) == faults' = IF ok \/ connsClosed THEN faults ELSE faults + 1

\* ---------------------------------------------------------------- RPC
\* n signatures downwards from hi: <<hi, hi-1, ...>>
RECURSIVE Desc(_, _)
Desc(hi, n) == IF n = 0 THEN <<>> ELSE <<hi>> \o Desc(hi - 1, n - 1)

\* getSignaturesForAddress(address, {limit, until}): the endpoint walks
\* backwards in time from the tip and returns at most `limit` signatures,
\* newest first, stopping before `until` (0: no until given).
GetSignaturesForAddress(limit, until) == Desc(chain, Min(limit, chain - until))

\* ------------------------------------------------------------------ Redis list
LPush(list, data) == <<data>> \o list
LTrim(list, start, stop) == SubSeq(list, start + 1, Min(stop + 1, Len(list)))
LRange(list, start, stop) == SubSeq(list, start + 1, Min(stop + 1, Len(list)))

\* RedisCache.GetRecentSwaps(limit)
DecodeAll(data) ==
    LET good == SelectSeq(data, Decodable)
    IN [i \in 1..Len(good) |-> Unmarshal(good[i])]

\* a decoding loop that stops at the first entry it cannot decode
DecodeAllUntilMalformed(data) ==
    LET bad == {i \in 1..Len(data) : ~Decodable(data[i])}
        n == IF bad = {} THEN Len(data) ELSE (CHOOSE i \in bad : \A j \in bad : i <= j) - 1
    IN [i \in 1..n |-> Unmarshal(data[i])]

GetRecentSwapsUntilMalformed(limit) == DecodeAllUntilMalformed(LRange(ring, 0, limit - 1))
GetRecentSwaps(limit) == DecodeAll(LRange(ring, 0, limit - 1))

\* ------------------------------------------------------------------ Init
PollerInit ==
    /\ lastSignature = 0
    /\ running = FALSE
    /\ cancelled = FALSE
    /\ pc = "notstarted"
    /\ batch = <<>>
    /\ idx = 0
    /\ hswap = 0
    /\ hlog = <<>>
    /\ hret = "none"

HistInit ==
    /\ baseline = 0
    /\ fetched = {}
    /\ errSkipped = {}
    /\ aborted = {}
    /\ abortedRun = {}
    /\ lateFetch = {}
    /\ lateFetchRun = {}
    /\ dropped = {}
    /\ refetched = {}

WriterInit ==
    /\ wpc = [w \in Writers |-> "idle"]
    /\ pushes = 0

SinkInit ==
    /\ prices = [t \in PriceKeys |-> NoValue]
    /\ lastUpdate = [t \in PriceKeys |-> [set |-> FALSE, price |-> 0]]
    /\ store = [s \in Sigs |-> 0]

PipelineInit ==
    /\ chain = 0
    /\ txKind \in Chains
    /\ faults = 0
    /\ PollerInit
    /\ HistInit
    /\ SinkInit
    /\ ring = <<>>

\* The cache on its own: Redis outlives the indexer process, so swaps:recent
\* may hold the entries of earlier runs, up to the cap the code keeps.
CacheInit ==
    /\ chain = 0
    /\ txKind = AllSwaps
    /\ faults = 0
    /\ PollerInit
    /\ HistInit
    /\ SinkInit
    /\ ring \in {[i \in 1..n |-> Marshal(OldSwap)] :
                   n \in {0, MaxRecentSwaps - 1, MaxRecentSwaps}}

\* ------------------------------------------------------------------ chain
\* A new transaction of the watched program lands on chain.  The chain is
\* read by getSignaturesForAddress alone, so a transaction that lands while
\* a tick is in progress is one that lands right after it.
AppendTx ==
    /\ chain < MaxSig
    /\ pc \in {"notstarted", "waiting", "returned"}
    /\ chain' = chain + 1
    /\ UNCHANGED <<txKind, faults, pollerVars, sinkVars, histVars>>
    /\ UNCHANGED pipelineFrame

\* ------------------------------------------------------------------ poller
\* RPCPoller.Start, up to entering the select loop
Start ==
    /\ pc \in {"notstarted", "returned"}
    /\ ~running
    /\ running' = TRUE
    /\ cancelled' = FALSE
    /\ pc' = "waiting"
    /\ UNCHANGED <<envVars, lastSignature, batch, idx, hswap, hlog, hret, sinkVars, histVars>>
    /\ UNCHANGED pipelineFrame

\* The caller cancels the ctx it passed to Start; the poller observes it at
\* its two selects (Start's loop, poll's inter-request wait).
Cancel ==
    /\ pc \in {"waiting", "processing"}
    /\ ~cancelled
    /\ cancelled' = TRUE
    /\ UNCHANGED <<envVars, lastSignature, running, pc, batch, idx, hswap, hlog, hret,
                   sinkVars, histVars>>
    /\ UNCHANGED pipelineFrame

\* Start's select takes <-ctx.Done()
LoopExit ==
    /\ pc = "waiting"
    /\ cancelled
    /\ running' = FALSE
    /\ pc' = "returned"
    /\ UNCHANGED <<envVars, lastSignature, cancelled, batch, idx, hswap, hlog, hret,
                   sinkVars, histVars>>
    /\ UNCHANGED pipelineFrame

\* A poll that does not advance the cursor.
PollCursorStale(result) == lastSignature

\* poll, lines 127-130: the cursor a tick records for a non-empty result
PollCursor(result) == result[1]

\* Start's select takes <-ticker.C: poll up to the head of its per-signature loop
Poll ==
    /\ pc = "waiting"
    /\ \E rpcOK \in Outcomes :
         /\ Fault(rpcOK)
         /\ LET result == IF rpcOK
                          THEN GetSignaturesForAddress(SignatureBatchSize, lastSignature)
                          ELSE <<>>
            IN IF result = <<>>
               THEN UNCHANGED <<lastSignature, pc, batch, idx, baseline>>
               ELSE /\ lastSignature' = PollCursor(result)
                    /\ batch' = result
                    /\ idx' = 1
                    /\ pc' = "processing"
                    /\ baseline' = IF baseline = 0 THEN PollCursor(result) ELSE baseline
    /\ UNCHANGED <<chain, txKind, running, cancelled, hswap, hlog, hret, sinkVars,
                   fetched, errSkipped, aborted, abortedRun, lateFetch, lateFetchRun,
                   dropped, refetched>>
    /\ UNCHANGED pipelineFrame

\* A loop that passes over the entry after the current one.
ContinueSkipOne ==
    IF idx < Len(batch)
    THEN /\ idx' = Min(idx + 2, Len(batch))
         /\ pc' = "processing"
         /\ UNCHANGED batch
    ELSE /\ idx' = 0
         /\ pc' = "waiting"
         /\ batch' = <<>>

\* `continue` / end of the loop body: next signature, or the tick is over
Continue ==
    IF idx < Len(batch)
    THEN /\ idx' = idx + 1
         /\ pc' = "processing"
         /\ UNCHANGED batch
    ELSE /\ idx' = 0
         /\ pc' = "waiting"
         /\ batch' = <<>>

\* poll, lines 134-137: an entry whose err is non-null is skipped
SkipFailed ==
    /\ pc = "processing"
    /\ txKind[batch[idx]] = "failed"
    /\ errSkipped' = errSkipped \cup {batch[idx]}
    /\ Continue
    /\ UNCHANGED <<envVars, lastSignature, running, cancelled, hswap, hlog, hret, sinkVars,
                   baseline, fetched, aborted, abortedRun, lateFetch, lateFetchRun,
                   dropped, refetched>>
    /\ UNCHANGED pipelineFrame

\* poll, lines 140-147: the inter-request wait ends with <-ctx.Done()
AbortTick ==
    /\ pc = "processing"
    /\ txKind[batch[idx]] # "failed"
    /\ idx > 1
    /\ cancelled
    /\ aborted' = aborted \cup SeqToSet(batch)
    /\ abortedRun' = abortedRun \cup SeqToSet(batch)
    /\ pc' = "waiting"
    /\ batch' = <<>>
    /\ idx' = 0
    /\ UNCHANGED <<envVars, lastSignature, running, cancelled, hswap, hlog, hret, sinkVars,
                   baseline, fetched, errSkipped, lateFetch, lateFetchRun,
                   dropped, refetched>>
    /\ UNCHANGED pipelineFrame

\* poll, lines 154-162: parseTransaction calls getTransaction and decodes;
\* an RPC error or a transaction that is no swap moves on to the next
\* signature, a swap is handed to the handler
FetchTransaction ==
    /\ pc = "processing"
    /\ LET s == batch[idx] IN
       /\ txKind[s] # "failed"
       /\ fetched' = fetched \cup {s}
       /\ lateFetch' = lateFetch \cup ({s} \cap aborted)
       /\ lateFetchRun' = lateFetchRun \cup ({s} \cap abortedRun)
       /\ refetched' = refetched \cup ({s} \cap dropped)
       /\ \E rpcOK \in Outcomes :
            /\ Fault(rpcOK)
            /\ dropped' = IF rpcOK /\ txKind[s] = "swap" THEN dropped ELSE dropped \cup {s}
            /\ IF rpcOK /\ txKind[s] = "swap"
               THEN /\ hswap' = s
                    /\ pc' = "add_lpush"
                    /\ UNCHANGED <<batch, idx>>
               ELSE /\ Continue
                    /\ UNCHANGED hswap
    /\ UNCHANGED <<chain, txKind, lastSignature, running, cancelled, hlog, hret, sinkVars,
                   baseline, errSkipped, aborted, abortedRun>>
    /\ UNCHANGED pipelineFrame

\* ------------------------------------------------------------ orchestrator
\* Indexer.ProcessSwap runs inside the poller's loop body (the handler is
\* called synchronously).  Each sink call is one step; a call either takes
\* effect and returns nil, or returns an error without effect.
Logged(op, ok) == Append(hlog, [op |-> op, ok |-> ok])

\* RedisCache.AddRecentSwap, lines 64-67: LPUSH swaps:recent
AddRecentSwapLPush ==
    /\ pc = "add_lpush"
    /\ \E ok \in SinkOutcomes :
         /\ SinkFault(ok)
         /\ hlog' = Logged("LPush", ok)
         /\ IF ok
            THEN /\ ring' = LPush(ring, Marshal(SwapEvent(hswap)))
                 /\ pc' = "add_ltrim"
            ELSE /\ ring' = ring
                 /\ pc' = "price"
    /\ UNCHANGED <<chain, txKind, lastSignature, running, cancelled, batch, idx, hswap, hret,
                   prices, lastUpdate, store, histVars>>
    /\ UNCHANGED pipelineFrame

\* RedisCache.AddRecentSwap, lines 69-72: LTRIM swaps:recent 0 MaxRecentSwaps-1
AddRecentSwapLTrim ==
    /\ pc = "add_ltrim"
    /\ \E ok \in SinkOutcomes :
         /\ SinkFault(ok)
         /\ hlog' = Logged("LTrim", ok)
         /\ ring' = IF ok THEN LTrim(ring, 0, MaxRecentSwaps - 1) ELSE ring
    /\ pc' = "price"
    /\ UNCHANGED <<chain, txKind, lastSignature, running, cancelled, batch, idx, hswap, hret,
                   prices, lastUpdate, store, histVars>>
    /\ UNCHANGED pipelineFrame

\* an UpdatePrice whose failure makes ProcessSwap return the error
UpdatePriceFatal ==
    /\ pc = "price"
    /\ \E ok \in SinkOutcomes :
         /\ SinkFault(ok)
         /\ hlog' = Logged("UpdatePrice", ok)
         /\ IF ok
            THEN /\ prices' = SetPrice(prices, SwapEvent(hswap).token_out, SwapEvent(hswap).price)
                 /\ lastUpdate' = Updated(lastUpdate, SwapEvent(hswap).token_out,
                                          SwapEvent(hswap).price)
                 /\ pc' = "insert"
                 /\ hret' = hret
            ELSE /\ prices' = prices
                 /\ lastUpdate' = lastUpdate
                 /\ pc' = "handled"
                 /\ hret' = "err"
    /\ UNCHANGED <<chain, txKind, lastSignature, running, cancelled, batch, idx, hswap,
                   ring, store, histVars>>
    /\ UNCHANGED pipelineFrame

\* RedisCache.UpdatePrice(swap.TokenOut, swap.Price): SET price:<token>
UpdatePrice ==
    /\ pc = "price"
    /\ \E ok \in SinkOutcomes :
         /\ SinkFault(ok)
         /\ hlog' = Logged("UpdatePrice", ok)
         /\ prices' = IF ok
                      THEN SetPrice(prices, SwapEvent(hswap).token_out, SwapEvent(hswap).price)
                      ELSE prices
         /\ lastUpdate' = IF ok
                          THEN Updated(lastUpdate, SwapEvent(hswap).token_out,
                                       SwapEvent(hswap).price)
                          ELSE lastUpdate
    /\ pc' = "insert"
    /\ UNCHANGED <<chain, txKind, lastSignature, running, cancelled, batch, idx, hswap, hret,
                   ring, store, histVars>>
    /\ UNCHANGED pipelineFrame

\* ClickHouseStore.InsertSwap; on failure ProcessSwap returns the error
InsertSwap ==
    /\ pc = "insert"
    /\ \E ok \in SinkOutcomes :
         /\ SinkFault(ok)
         /\ hlog' = Logged("InsertSwap", ok)
         /\ IF ok
            THEN /\ store' = [store EXCEPT ![hswap] = @ + 1]
                 /\ pc' = "publish"
                 /\ hret' = hret
            ELSE /\ store' = store
                 /\ pc' = "handled"
                 /\ hret' = "err"
    /\ UNCHANGED <<chain, txKind, lastSignature, running, cancelled, batch, idx, hswap,
                   ring, prices, lastUpdate, histVars>>
    /\ UNCHANGED pipelineFrame

\* RedisCache.PublishSwap: PUBLISH swaps:live; then ProcessSwap returns nil
PublishSwap ==
    /\ pc = "publish"
    /\ \E ok \in SinkOutcomes :
         /\ SinkFault(ok)
         /\ hlog' = Logged("PublishSwap", ok)
    /\ pc' = "handled"
    /\ hret' = "ok"
    /\ UNCHANGED <<chain, txKind, lastSignature, running, cancelled, batch, idx, hswap,
                   sinkVars, histVars>>
    /\ UNCHANGED pipelineFrame

\* ProcessSwap has returned to the handler closure, which logs an error and
\* returns to poll's loop
HandlerReturn ==
    /\ pc = "handled"
    /\ hswap' = 0
    /\ hlog' = <<>>
    /\ hret' = "none"
    /\ Continue
    /\ UNCHANGED <<envVars, lastSignature, running, cancelled, sinkVars, histVars>>
    /\ UNCHANGED pipelineFrame

\* ------------------------------------------------------------------ process
\* The indexer process dies (a panic, a kill) and is started again: every
\* RPCPoller field is back at its zero value, Redis and ClickHouse keep
\* their content.  A crash spends the run's whole failure budget: the model
\* has runs with failed calls and runs with one crash.
Crash ==
    /\ pc # "notstarted"
    /\ faults = 0
    /\ faults' = MaxFaults
    /\ lastSignature' = 0
    /\ running' = FALSE
    /\ cancelled' = FALSE
    /\ pc' = "notstarted"
    /\ batch' = <<>>
    /\ idx' = 0
    /\ hswap' = 0
    /\ hlog' = <<>>
    /\ hret' = "none"
    /\ aborted' = aborted \cup SeqToSet(batch)
    /\ abortedRun' = {}
    /\ lateFetchRun' = {}
    /\ UNCHANGED <<chain, txKind, sinkVars, baseline, fetched, errSkipped, lateFetch,
                   dropped, refetched>>
    /\ UNCHANGED pipelineFrame

PollerStep ==
    \/ Start
    \/ Cancel
    \/ LoopExit
    \/ Poll
    \/ SkipFailed
    \/ AbortTick
    \/ FetchTransaction
    \/ AddRecentSwapLPush
    \/ AddRecentSwapLTrim
    \/ UpdatePrice
    \/ InsertSwap
    \/ PublishSwap
    \/ HandlerReturn

\* ------------------------------------------------------- cache writers
\* RedisCache.AddRecentSwap called by one of several concurrent callers:
\* the LPUSH.  The call returns the error when the LPUSH fails.
WriterLPush(w) ==
    /\ wpc[w] = "idle"
    /\ pushes < MaxPushes
    /\ pushes' = pushes + 1
    /\ \E ok \in Outcomes :
         /\ Fault(ok)
         /\ IF ok
            THEN /\ ring' = LPush(ring, Marshal(SwapEvent(pushes + 1)))
                 /\ wpc' = [wpc EXCEPT ![w] = "trim"]
            ELSE UNCHANGED <<ring, wpc>>
    /\ UNCHANGED writerFrame

\* RedisCache.AddRecentSwap: the LTRIM that follows the caller's LPUSH
WriterLTrim(w) ==
    /\ wpc[w] = "trim"
    /\ \E ok \in Outcomes :
         /\ Fault(ok)
         /\ ring' = IF ok THEN LTrim(ring, 0, MaxRecentSwaps - 1) ELSE ring
    /\ wpc' = [wpc EXCEPT ![w] = "idle"]
    /\ UNCHANGED <<pushes, writerFrame>>

\* ------------------------------------------------------------ flag store
\* flags/store.go: indexKey, valuePrefix, flagKey
indexKey == "flags:index"
valuePrefix == "flags:"
flagKey(key) == valuePrefix \o key

\* keyRe = ^[a-zA-Z0-9._-]{1,128}$
KeyChars == "abcdefghijklmnopqrstuvwxyzABCDEFGHIJKLMNOPQRSTUVWXYZ0123456789._-"
KeyMaxLen == 128
InString(c, str) == \E i \in 1..Len(str) : SubSeq(str, i, i) = c
\* a validation with no upper limit on the length
ValidateKeyAnyLength(key) ==
    /\ Len(key) >= 1
    /\ \A i \in 1..Len(key) : InString(SubSeq(key, i, i), KeyChars)

ValidateKey(key) ==
    /\ Len(key) >= 1
    /\ Len(key) <= KeyMaxLen
    /\ \A i \in 1..Len(key) : InString(SubSeq(key, i, i), KeyChars)

\* The keys the callers of the flag store pass: a few short ones, and the
\* keys at the edges of what ValidateKey accepts.
LongestKey == KeyChars \o SubSeq(KeyChars, 1, KeyMaxLen - Len(KeyChars))
CommonKeys == {"a", "index", "a:b"}
EdgeKeys == {"", "a", " ", "a b", "a\tb", "a\nb", "a:b", LongestKey, LongestKey \o "a"}
FlagKeys == CommonKeys \cup EdgeKeys
ValidFlagKeys == {k \in FlagKeys : ValidateKey(k)}
RedisKeys == {indexKey} \cup {flagKey(k) : k \in ValidFlagKeys}

\* Redis values: no key, a string, or a set

\* json.Marshal / json.Unmarshal of a Flag
MarshalFlag(f) == <<"json", f.key, f.value, f.updated_at>>
UnmarshalFlag(b) == [key |-> b[2], value |-> b[3], updated_at |-> b[4]]

\* Redis commands on a database db: the database after the command and
\* whether the command replied with an error (WRONGTYPE).
RedisSet(db, k, v) == [db |-> [db EXCEPT ![k] = StringValue(v)], err |-> FALSE]
RedisDel(db, k) == [db |-> [db EXCEPT ![k] = NoValue], err |-> FALSE]
RedisSAdd(db, k, m) ==
    IF db[k].type = "string" THEN [db |-> db, err |-> TRUE]
    ELSE IF db[k].type = "none" THEN [db |-> [db EXCEPT ![k] = SetValue({m})], err |-> FALSE]
    ELSE [db |-> [db EXCEPT ![k] = SetValue(db[k].members \cup {m})], err |-> FALSE]
RedisSRem(db, k, m) ==
    IF db[k].type = "string" THEN [db |-> db, err |-> TRUE]
    ELSE IF db[k].type = "none" THEN [db |-> db, err |-> FALSE]
    ELSE IF db[k].members \ {m} = {} THEN [db |-> [db EXCEPT ![k] = NoValue], err |-> FALSE]
    ELSE [db |-> [db EXCEPT ![k] = SetValue(db[k].members \ {m})], err |-> FALSE]

\* Store.Upsert's TxPipeline (MULTI, SET, SADD, EXEC): both commands run,
\* in order and with no other client's command between them; Exec returns
\* the first command error.
UpsertTx(db, key, b) ==
    LET r1 == RedisSet(db, flagKey(key), b)
        r2 == RedisSAdd(r1.db, indexKey, key)
    IN [db |-> r2.db, err |-> r1.err \/ r2.err]

\* Store.Delete's TxPipeline (MULTI, DEL, SREM, EXEC)
DeleteTx(db, key) ==
    LET r1 == RedisDel(db, flagKey(key))
        r2 == RedisSRem(r1.db, indexKey, key)
    IN [db |-> r2.db, err |-> r1.err \/ r2.err]

FlagInit ==
    /\ rdb = [k \in RedisKeys |-> NoValue]
    /\ clock = 0
    /\ lastWrite = [k \in ValidFlagKeys |-> [op |-> "none"]]
    /\ flagRet = [op |-> "none", key |-> "", err |-> ""]

\* Store.Upsert(key, value).  A transport failure leaves Redis unchanged.
Upsert(key, value) ==
    /\ IF ~ValidateKey(key)
       THEN /\ flagRet' = [op |-> "Upsert", key |-> key, err |-> "invalid flag key"]
            /\ UNCHANGED <<rdb, lastWrite, faults>>
       ELSE LET flag == [key |-> key, value |-> value, updated_at |-> clock] IN
            \E ok \in Outcomes :
               /\ Fault(ok)
               /\ LET r == IF ok THEN UpsertTx(rdb, key, MarshalFlag(flag))
                           ELSE [db |-> rdb, err |-> TRUE]
                  IN /\ rdb' = r.db
                     /\ lastWrite' = [lastWrite EXCEPT ![key] =
                           IF r.err THEN [op |-> "failed"] ELSE [op |-> "upsert", flag |-> flag]]
                     /\ flagRet' = [op |-> "Upsert", key |-> key,
                                    err |-> IF r.err THEN "upsert flag" ELSE ""]
    /\ UNCHANGED <<clock, flagFrame>>

\* Store.Delete(key)
Delete(key) ==
    /\ IF ~ValidateKey(key)
       THEN /\ flagRet' = [op |-> "Delete", key |-> key, err |-> "invalid flag key"]
            /\ UNCHANGED <<rdb, lastWrite, faults>>
       ELSE \E ok \in Outcomes :
               /\ Fault(ok)
               /\ LET r == IF ok THEN DeleteTx(rdb, key) ELSE [db |-> rdb, err |-> TRUE]
                  IN /\ rdb' = r.db
                     /\ lastWrite' = [lastWrite EXCEPT ![key] =
                           IF r.err THEN [op |-> "failed"] ELSE [op |-> "delete"]]
                     /\ flagRet' = [op |-> "Delete", key |-> key,
                                    err |-> IF r.err THEN "delete flag" ELSE ""]
    /\ UNCHANGED <<clock, flagFrame>>

\* Store.Get(key): the flag, or the error returned
Get(key) ==
    IF ~ValidateKey(key) THEN [err |-> "invalid flag key"]
    ELSE IF rdb[flagKey(key)].type = "none" THEN [err |-> "flag not found"]
    ELSE IF rdb[flagKey(key)].type # "string" THEN [err |-> "get flag"]
    ELSE [err |-> "", flag |-> UnmarshalFlag(rdb[flagKey(key)].val)]

\* Store.Get(key) called: it reads, and returns the flag or the error
GetCall(key) ==
    /\ flagRet' = [op |-> "Get", key |-> key, err |-> Get(key).err]
    /\ UNCHANGED <<rdb, lastWrite, clock, faults, flagFrame>>

\* Store.List(): SMEMBERS flags:index, then MGET of the valid members'
\* values; MGET yields nil for a key that is missing or holds no string.
\* The result is given per index member.
List ==
    IF rdb[indexKey].type = "string" THEN [err |-> "list flags index", items |-> {}]
    ELSE LET keys == IF rdb[indexKey].type = "set" THEN rdb[indexKey].members ELSE {}
             valid == {k \in keys : ValidateKey(k)}
             found == {k \in valid : rdb[flagKey(k)].type = "string"}
         IN [err |-> "", items |-> {<<k, UnmarshalFlag(rdb[flagKey(k)].val)>> : k \in found}]

\* time passes
ClockTick ==
    /\ clock < MaxClock
    /\ clock' = clock + 1
    /\ UNCHANGED <<rdb, lastWrite, flagRet, faults, flagFrame>>

\* Store.List() as it runs: SMEMBERS, then MGET, with other clients' commands
\* between the two.
ListInit ==
    /\ listPc = "idle"
    /\ listKeys = {}
    /\ listOut = {}
    /\ listErr = ""

\* A value that json.Unmarshal refuses, and what the flag store's Redis may
\* hold when List is called: nothing, an index with a member that is no valid
\* key, a value that is no JSON, a member with no value.
FlagA == [key |-> "a", value |-> TRUE, updated_at |-> 0]
EmptyStore == [k \in RedisKeys |-> NoValue]
ListStores ==
    {EmptyStore,
     [EmptyStore EXCEPT ![indexKey] = SetValue({"a", "a b"}),
                        ![flagKey("a")] = StringValue(MarshalFlag(FlagA))],
     [EmptyStore EXCEPT ![indexKey] = SetValue({"a", "a:b"}),
                        ![flagKey("a")] = StringValue(Malformed)],
     [EmptyStore EXCEPT ![indexKey] = SetValue({"a"})]}

\* a decoding that turns a missing or undecodable value into the zero Flag
DecodeValuesKeepMissing(db, keys) ==
    {<<k, IF db[flagKey(k)].type = "string" /\ Decodable(db[flagKey(k)].val)
          THEN UnmarshalFlag(db[flagKey(k)].val)
          ELSE [key |-> "", value |-> FALSE, updated_at |-> 0]>> :
        k \in {m \in keys : ValidateKey(m)}}

\* List, lines 88-118: the valid members' values as MGET gives them; nil (a
\* missing key, a key that holds no string) and what does not unmarshal are
\* skipped
DecodeValues(db, keys) ==
    {<<k, UnmarshalFlag(db[flagKey(k)].val)>> :
        k \in {m \in keys : /\ ValidateKey(m)
                             /\ db[flagKey(m)].type = "string"
                             /\ Decodable(db[flagKey(m)].val)}}

\* List, lines 80-97: SMEMBERS flags:index; an error, an empty index or an
\* index with no valid key ends the call
ListSMembers ==
    /\ listPc \in {"idle", "done"}
    /\ \E ok \in Outcomes :
         /\ Fault(ok)
         /\ IF ~ok \/ rdb[indexKey].type = "string"
            THEN /\ listErr' = "list flags index"
                 /\ listKeys' = {}
                 /\ listPc' = "done"
            ELSE LET keys == IF rdb[indexKey].type = "set" THEN rdb[indexKey].members ELSE {}
                 IN /\ listErr' = ""
                    /\ listKeys' = keys
                    /\ listPc' = IF {k \in keys : ValidateKey(k)} = {} THEN "done" ELSE "mget"
    /\ listOut' = {}
    /\ UNCHANGED <<flagVars, listFrame>>

\* List, lines 99-120: MGET of the valid members' keys, and the decoding
ListMGet ==
    /\ listPc = "mget"
    /\ \E ok \in Outcomes :
         /\ Fault(ok)
         /\ listErr' = IF ok THEN "" ELSE "mget flags"
         /\ listOut' = IF ok THEN DecodeValues(rdb, listKeys) ELSE {}
    /\ listPc' = "done"
    /\ UNCHANGED <<listKeys, flagVars, listFrame>>

\* ------------------------------------------------------------------ strings
\* Go's strings package on ASCII text.
LowerLetters == "abcdefghijklmnopqrstuvwxyz"
UpperLetters == "ABCDEFGHIJKLMNOPQRSTUVWXYZ"
WhiteSpace == " \t\n\r"

CharAt(s, i) == SubSeq(s, i, i)
PositionIn(c, str) == CHOOSE i \in 1..Len(str) : CharAt(str, i) = c
Translate(c, from, to) == IF InString(c, from) THEN CharAt(to, PositionIn(c, from)) ELSE c

\* Character by character, halving the text.
RECURSIVE MapString(_, _, _)
MapString(s, from, to) ==
    IF s = "" THEN ""
    ELSE IF Len(s) = 1 THEN Translate(s, from, to)
    ELSE LET half == Len(s) \div 2
         IN MapString(SubSeq(s, 1, half), from, to)
              \o MapString(SubSeq(s, half + 1, Len(s)), from, to)

ToUpper(s) == MapString(s, LowerLetters, UpperLetters)
ToLower(s) == MapString(s, UpperLetters, LowerLetters)

SetMin(S) == CHOOSE x \in S : \A y \in S : x <= y
SetMax(S) == CHOOSE x \in S : \A y \in S : x >= y

\* strings.TrimSpace: the text from its first to its last non-space character
TrimSpace(s) ==
    LET nonSpace == {i \in 1..Len(s) : ~InString(CharAt(s, i), WhiteSpace)}
    IN IF nonSpace = {} THEN "" ELSE SubSeq(s, SetMin(nonSpace), SetMax(nonSpace))

HasPrefix(s, prefix) == Len(s) >= Len(prefix) /\ SubSeq(s, 1, Len(prefix)) = prefix
HasSuffix(s, suffix) ==
    Len(s) >= Len(suffix) /\ SubSeq(s, Len(s) - Len(suffix) + 1, Len(s)) = suffix
TrimPrefix(s, prefix) == IF HasPrefix(s, prefix) THEN SubSeq(s, Len(prefix) + 1, Len(s)) ELSE s
TrimSuffix(s, suffix) == IF HasSuffix(s, suffix) THEN SubSeq(s, 1, Len(s) - Len(suffix)) ELSE s

\* 0-based offsets at which substr occurs in s
Occurrences(s, substr) ==
    {i \in 0..(Len(s) - Len(substr)) : SubSeq(s, i + 1, i + Len(substr)) = substr}
Contains(s, substr) == Occurrences(s, substr) # {}
Index(s, substr) ==
    IF Contains(s, substr)
    THEN SetMin(Occurrences(s, substr))
    ELSE -1

\* ------------------------------------------------------------------ agent
\* The code fence of three back quotes.  A TLA+ string cannot hold a back
\* quote, so the model writes the back quote as ^.
Fence == "^^^"

\* sanitizeSQL, lines 283-285 and 288-290: drop a leading "sql" tag
DropSqlTag(s) == IF HasPrefix(ToLower(s), "sql") THEN SubSeq(s, 4, Len(s)) ELSE s

\* sanitizeSQL
sanitizeSQL(s) ==
    LET s1 == TrimSpace(s)
        s2 == IF HasPrefix(s1, Fence)
              THEN DropSqlTag(TrimSpace(TrimPrefix(s1, Fence)))
              ELSE s1
        s3 == TrimSpace(DropSqlTag(TrimSpace(s2)))
        s4 == IF Index(s3, Fence) >= 0 THEN SubSeq(s3, 1, Index(s3, Fence)) ELSE s3
        s5 == TrimSuffix(TrimSpace(s4), ";")
    IN TrimSpace(s5)

\* validateSQL's list of disallowed keywords
disallowed ==
    <<"INSERT ", "UPDATE ", "DELETE ", "DROP ", "ALTER ", "TRUNCATE ",
      "CREATE ", "RENAME ", "ATTACH ", "DETACH ">>

\* validateSQL without its semicolon check.
validateSQLNoSemicolon(s) ==
    LET upper == ToUpper(TrimSpace(s)) IN
    IF s = "" THEN "empty SQL generated by LLM"
    ELSE IF ~HasPrefix(upper, "SELECT") THEN "only SELECT queries are allowed"
    ELSE IF \E i \in 1..Len(disallowed) : Contains(upper, disallowed[i])
         THEN "disallowed SQL keyword"
    ELSE IF ~Contains(upper, "FROM SWAPS") /\ ~Contains(upper, "FROM SOLANA.SWAPS")
         THEN "query must target solana.swaps table"
    ELSE ""

\* validateSQL: the error it returns, "" for nil
validateSQL(s) ==
    LET upper == ToUpper(TrimSpace(s)) IN
    IF s = "" THEN "empty SQL generated by LLM"
    ELSE IF ~HasPrefix(upper, "SELECT") THEN "only SELECT queries are allowed"
    ELSE IF \E i \in 1..Len(disallowed) : Contains(upper, disallowed[i])
         THEN "disallowed SQL keyword"
    ELSE IF Contains(s, ";") THEN "multiple statements or semicolons are not allowed"
    ELSE IF ~Contains(upper, "FROM SWAPS") /\ ~Contains(upper, "FROM SOLANA.SWAPS")
         THEN "query must target solana.swaps table"
    ELSE ""

ValidationErrors ==
    {"empty SQL generated by LLM", "only SELECT queries are allowed", "disallowed SQL keyword",
     "multiple statements or semicolons are not allowed", "query must target solana.swaps table"}

\* What the LLM may answer the SQL prompt with.
LLMResponses ==
    {"SELECT pair, sum(amount_in) FROM solana.swaps GROUP BY pair",
     "^^^sql\nSELECT count() FROM swaps;\n^^^",
     "^^^\nselect price from swaps order by timestamp desc limit 1\n^^^\nThis is the last price.",
     "sql\nSELECT x FROM swaps ;",
     "  SELECT x FROM swaps WHERE pair = 'SOL/USDC' \n",
     "DROP TABLE swaps;",
     "SELECT 1; DROP TABLE swaps",
     "select x from swaps where note = 'delete me'",
     "SELECT x FROM other_table",
     "Here is the query: SELECT x FROM swaps",
     "INSERT INTO swaps SELECT * FROM swaps",
     "^^^sql\n^^^",
     "SELECT x FROM swaps;;",
     ""}

\* generateSQL, lines 184-186 and 188-194, for an LLM response resp: what
\* it returns to Ask.
GenerateSQLUnchecked(resp) == [sql |-> sanitizeSQL(resp), err |-> ""]

GenerateSQLResult(resp) ==
    LET q == sanitizeSQL(resp)
    IN IF validateSQL(q) # "" THEN [sql |-> "", err |-> validateSQL(q)]
       ELSE [sql |-> q, err |-> ""]

\* details of an ErrorResponse: one key and its value, or nothing (nil)
NoDetails == [key |-> "", value |-> ""]

\* no response has been written for the request
NoResponse == [code |-> 0, error |-> "", details |-> NoDetails, sql |-> ""]

AgentInit ==
    /\ apc = "idle"
    /\ llmResp = ""
    /\ sqlQuery = ""
    /\ askErr = ""
    /\ executed = {}
    /\ ranQuery = FALSE
    /\ ranSummary = FALSE

\* A caller calls Agent.Ask.
AskStart ==
    /\ apc \in {"idle", "responded"}
    /\ apc' = "generate"
    /\ llmResp' = ""
    /\ sqlQuery' = ""
    /\ askErr' = ""
    /\ ranQuery' = FALSE
    /\ ranSummary' = FALSE
    /\ aiResp' = NoResponse
    /\ UNCHANGED <<executed, faults, devMode, handlerFrame>>

\* Ask, lines 136-139: generateSQL
GenerateSQL ==
    /\ apc = "generate"
    /\ \E ok \in Outcomes, resp \in LLMResponses :
         /\ Fault(ok)
         /\ IF ~ok
            THEN /\ askErr' = "LLM SQL generation failed"
                 /\ apc' = "returned"
                 /\ UNCHANGED <<llmResp, sqlQuery>>
            ELSE LET r == GenerateSQLResult(resp) IN
                 /\ llmResp' = resp
                 /\ sqlQuery' = r.sql
                 /\ askErr' = r.err
                 /\ apc' = IF r.err # "" THEN "returned" ELSE "run"
    /\ UNCHANGED <<executed, ranQuery, ranSummary, agentFrame>>

\* Ask, lines 141-144: runQuery hands sqlQuery to db.QueryContext
RunQuery ==
    /\ apc = "run"
    /\ executed' = executed \cup {sqlQuery}
    /\ ranQuery' = TRUE
    /\ \E ok \in Outcomes :
         /\ Fault(ok)
         /\ IF ok
            THEN /\ apc' = "summarise"
                 /\ askErr' = askErr
            ELSE /\ apc' = "returned"
                 /\ askErr' = "failed to execute query"
    /\ UNCHANGED <<llmResp, sqlQuery, ranSummary, agentFrame>>

\* Ask, lines 146-154: summariseResult calls the LLM; Ask returns
SummariseResult ==
    /\ apc = "summarise"
    /\ ranSummary' = TRUE
    /\ \E ok \in Outcomes :
         /\ Fault(ok)
         /\ askErr' = IF ok THEN "" ELSE "LLM summarisation failed"
    /\ apc' = "returned"
    /\ UNCHANGED <<llmResp, sqlQuery, executed, ranQuery, agentFrame>>

\* ------------------------------------------------------------ validator
\* The texts validateSQL is applied to: a lead, a statement and a tail.
Leads == {"", " "}
Statements ==
    {"SELECT x FROM swaps", "select x from swaps", "SeLeCt X fRoM sWaPs",
     "SELECT x FROM solana.swaps", "select x from solana.swaps", "Select X From Solana.Swaps",
     "SELECT x FROM other_table", "DROP TABLE swaps", "insert into swaps select x from swaps",
     "WITH t AS (SELECT 1) SELECT x FROM swaps", "",
     "SELECT x FROM swaps_archive", "SELECT x FROM other_table WHERE note = 'from swaps'"}
Tails ==
    {"", " WHERE pair = 'SOL/USDC'", " where pair = 'sol/usdc'", " WHERE note = 'Update me'",
     ";", "; DROP TABLE swaps", " drop ", " rename", " "}
ValidatorInputs == {l \o s \o t : l \in Leads, s \in Statements, t \in Tails}

ValidatorInit ==
    /\ vin = ""
    /\ vout = "none"

\* validateSQL(q) is called and returns
ValidateCall(q) ==
    /\ vin' = q
    /\ vout' = validateSQL(q)
    /\ UNCHANGED validatorFrame

\* ------------------------------------------------------------ the handler AIAsk
\* (internal/server/handlers.go)

\* err as it would be if the details were attached whatever DevMode says
ErrResponseAlwaysDetails(code, msg, details) ==
    [code |-> code, error |-> msg, details |-> details, sql |-> ""]

\* Handlers.err: the details are attached in developer mode only
ErrResponse(code, msg, details) ==
    [code |-> code, error |-> msg,
     details |-> IF devMode /\ details # NoDetails THEN details ELSE NoDetails,
     sql |-> ""]

\* the AIAskResponse of a successful Ask
AskResponse(query) == [code |-> 200, error |-> "", details |-> NoDetails, sql |-> query]

\* The ways AIAsk answers before it calls Agent.Ask: the body does not bind,
\* the trimmed question is empty, the agent for the model override cannot be
\* created.
EarlyResponses ==
    {ErrResponse(400, "invalid json", NoDetails),
     ErrResponse(400, "question is required", [key |-> "question", value |-> "required"]),
     ErrResponse(500, "failed to create ai agent", NoDetails)}

HandlerInit ==
    /\ devMode = FALSE
    /\ aiResp = NoResponse

\* AIAsk, lines 210-239: a request that is answered without calling Ask
AIAskEarly ==
    /\ apc \in {"idle", "responded"}
    /\ \E r \in EarlyResponses : aiResp' = r
    /\ apc' = "responded"
    /\ llmResp' = ""
    /\ sqlQuery' = ""
    /\ askErr' = ""
    /\ ranQuery' = FALSE
    /\ ranSummary' = FALSE
    /\ UNCHANGED <<executed, faults, devMode, handlerFrame>>

\* AIAsk, lines 241-246: Ask has returned and the response is written
AIAskRespond ==
    /\ apc = "returned"
    /\ apc' = "responded"
    /\ aiResp' = IF askErr # ""
                 THEN ErrResponse(500, "ai ask failed", [key |-> "err", value |-> askErr])
                 ELSE AskResponse(sqlQuery)
    /\ UNCHANGED <<llmResp, sqlQuery, askErr, executed, ranQuery, ranSummary, faults,
                   devMode, handlerFrame>>

\* ------------------------------------------------------------ the middleware chain
\* (internal/server/routes.go)

\* The clients, told apart by their address (the limiter's identifier is
\* the request's RealIP).
Clients == {"c1", "c2"}

\* Two of the routes: one outside the /v1/ai group and the one inside it.
HealthRoute == "GET /v1/health"

AskRoute == "POST /v1/ai/ask"

\* cfg.APIKey: not set, or set
ApiKeys == {"", "secret"}

\* The X-API-Key header of a request; "" is a request without the header
\* (Header.Get gives "" for a missing header and for an empty one).
HeaderKeys == {"", "secret", "wrong"}

\* The statuses AIAsk answers with once it is reached.
AskStatuses == {200, 400, 500}

\* Burst of the AI group's limiter.
LimiterBurst == 2

\* Rate 0.2 per second: one token every RefillSeconds seconds.  The model
\* counts the bucket in units of 1/RefillSeconds token, so that one second
\* refills one unit and a request costs RefillSeconds units.
RefillSeconds == 5

Capacity == LimiterBurst * RefillSeconds

\* a refill five times too fast: one token per second
RefillFast(elapsed) == RefillSeconds * elapsed

\* rate.Limiter.advance: the units gained in elapsed seconds
Refill(elapsed) == elapsed

\* A client the store has no visitor for.
NoLimiter == [tokens |-> 0, last |-> 0, seen |-> FALSE]

NoRequest == [client |-> "", route |-> "", key |-> "", status |-> 0, reached |-> FALSE]

\* The bucket of client c as AllowN finds it at time t: a new visitor gets a
\* full limiter, an old one is advanced to t.  (The store forgets a visitor
\* not seen for ExpiresIn = 2 minutes and gives it a new, full limiter at its
\* next request; a limiter left alone that long is full anyway, so the
\* clean-up changes no decision.)
Level(c, t) ==
    IF ~visitors[c].seen THEN Capacity
    ELSE LET level == visitors[c].tokens + Refill(t - visitors[c].last)
         IN IF level > Capacity THEN Capacity ELSE level

\* middleware.KeyAuthWithConfig on header:X-API-Key, installed only when
\* cfg.APIKey is set: 0 lets the request through; a request without the
\* header is answered 400 (the extractor's "missing key in request header"),
\* one with another key 401.
KeyAuth(key) ==
    IF apiKey = "" THEN 0
    ELSE IF key = "" THEN 400
    ELSE IF key = apiKey THEN 0
    ELSE 401

ApiInit ==
    /\ apiKey = ""
    /\ now = 0
    /\ visitors = [c \in Clients |-> NoLimiter]
    /\ askLog = <<>>
    /\ lastResp = NoRequest

\* A request that KeyAuth answers itself.
ApiRefused(c, route, key) ==
    /\ KeyAuth(key) # 0
    /\ lastResp' = [client |-> c, route |-> route, key |-> key, status |-> KeyAuth(key),
                    reached |-> FALSE]
    /\ UNCHANGED <<apiKey, now, visitors, askLog, apiFrame>>

\* GET /v1/health passes KeyAuth and reaches Health.
ApiHealth(c, key) ==
    /\ KeyAuth(key) = 0
    /\ lastResp' = [client |-> c, route |-> HealthRoute, key |-> key, status |-> 200,
                    reached |-> TRUE]
    /\ UNCHANGED <<apiKey, now, visitors, askLog, apiFrame>>

\* POST /v1/ai/ask passes KeyAuth, the limiter has a token for the client,
\* and AIAsk answers.
ApiAskAllowed(c, key) ==
    /\ KeyAuth(key) = 0
    /\ Len(askLog) < MaxAsks
    /\ Level(c, now) >= RefillSeconds
    /\ visitors' = [visitors EXCEPT ![c] =
                       [tokens |-> Level(c, now) - RefillSeconds, last |-> now, seen |-> TRUE]]
    /\ askLog' = Append(askLog, [client |-> c, time |-> now, level |-> Level(c, now),
                                  allowed |-> TRUE])
    /\ \E status \in AskStatuses :
         lastResp' = [client |-> c, route |-> AskRoute, key |-> key, status |-> status,
                      reached |-> TRUE]
    /\ UNCHANGED <<apiKey, now, apiFrame>>

\* POST /v1/ai/ask passes KeyAuth and the limiter has no token for the
\* client: 429, and the limiter is left as it was.
ApiAskLimited(c, key) ==
    /\ KeyAuth(key) = 0
    /\ Len(askLog) < MaxAsks
    /\ Level(c, now) < RefillSeconds
    /\ askLog' = Append(askLog, [client |-> c, time |-> now, level |-> Level(c, now),
                                  allowed |-> FALSE])
    /\ lastResp' = [client |-> c, route |-> AskRoute, key |-> key, status |-> 429,
                    reached |-> FALSE]
    /\ UNCHANGED <<apiKey, now, visitors, apiFrame>>

\* A second passes.
ApiTick ==
    /\ now < MaxTime
    /\ now' = now + 1
    /\ UNCHANGED <<apiKey, visitors, askLog, lastResp, apiFrame>>
\* ------------------------------------------------------------ Start and Stop
\* (internal/stream/rpc_poller.go, several calls on one RPCPoller)

\* The Start calls made on the poller, numbered in the order they are made;
\* each has its own ctx.
StartCalls == 1..MaxStarts

\* what the poller does after a Stop has returned is remembered in afterStop
Note(what) == afterStop' = IF stopped THEN afterStop \cup {what} ELSE afterStop

LifeInit ==
    /\ lpc = [i \in StartCalls |-> "notcalled"]
    /\ lctx = [i \in StartCalls |-> FALSE]
    /\ llast = [i \in StartCalls |-> 0]
    /\ lbatch = [i \in StartCalls |-> <<>>]
    /\ lidx = [i \in StartCalls |-> 0]
    /\ stopped = FALSE
    /\ afterStop = {}

\* Start, lines 59-65, when the flag is clear: the call enters the select loop
LStart(i) ==
    /\ lpc[i] = "notcalled"
    /\ i > 1 => lpc[i - 1] # "notcalled"
    /\ ~running
    /\ running' = TRUE
    /\ lpc' = [lpc EXCEPT ![i] = "select"]
    /\ Note("start")
    /\ UNCHANGED <<chain, faults, lastSignature, lctx, llast, lbatch, lidx, stopped, lifeFrame>>

\* Start, lines 60-63, when the flag is set: "poller already running"
LStartRefused(i) ==
    /\ lpc[i] = "notcalled"
    /\ i > 1 => lpc[i - 1] # "notcalled"
    /\ running
    /\ lpc' = [lpc EXCEPT ![i] = "refused"]
    /\ UNCHANGED <<chain, faults, lastSignature, running, lctx, llast, lbatch, lidx, stopped,
                   afterStop, lifeFrame>>

\* Stop, lines 92-97: clears the flag and returns
LStop ==
    /\ running' = FALSE
    /\ stopped' = TRUE
    /\ UNCHANGED <<chain, faults, lastSignature, lpc, lctx, llast, lbatch, lidx, afterStop,
                   lifeFrame>>

\* The ctx given to Start call i is cancelled.
LCancel(i) ==
    /\ lpc[i] \in {"select", "rpc", "process"}
    /\ ~lctx[i]
    /\ lctx' = [lctx EXCEPT ![i] = TRUE]
    /\ UNCHANGED <<chain, faults, lastSignature, running, lpc, llast, lbatch, lidx, stopped,
                   afterStop, lifeFrame>>

\* Start, lines 77-81: the select takes <-ctx.Done()
LExit(i) ==
    /\ lpc[i] = "select"
    /\ lctx[i]
    /\ running' = FALSE
    /\ lpc' = [lpc EXCEPT ![i] = "returned"]
    /\ UNCHANGED <<chain, faults, lastSignature, lctx, llast, lbatch, lidx, stopped, afterStop,
                   lifeFrame>>

\* Start, line 83, and poll, lines 105-107: the select takes <-ticker.C and
\* the tick reads the cursor
LTickRead(i) ==
    /\ lpc[i] = "select"
    /\ llast' = [llast EXCEPT ![i] = lastSignature]
    /\ lpc' = [lpc EXCEPT ![i] = "rpc"]
    /\ Note("tick")
    /\ UNCHANGED <<chain, faults, lastSignature, running, lctx, lbatch, lidx, stopped,
                   lifeFrame>>

\* poll, lines 115-123: the signature request fails, or finds nothing new
LTickNothing(i) ==
    /\ lpc[i] = "rpc"
    /\ \E rpcOK \in Outcomes :
         /\ Fault(rpcOK)
         /\ rpcOK => GetSignaturesForAddress(SignatureBatchSize, llast[i]) = <<>>
    /\ lpc' = [lpc EXCEPT ![i] = "select"]
    /\ Note("rpc")
    /\ UNCHANGED <<chain, lastSignature, running, lctx, llast, lbatch, lidx, stopped,
                   lifeFrame>>

\* poll, lines 115-130: the signature request finds signatures and the tick
\* writes the cursor
LTickFetch(i) ==
    /\ lpc[i] = "rpc"
    /\ LET result == GetSignaturesForAddress(SignatureBatchSize, llast[i]) IN
         /\ result # <<>>
         /\ lastSignature' = PollCursor(result)
         /\ lbatch' = [lbatch EXCEPT ![i] = result]
    /\ lidx' = [lidx EXCEPT ![i] = 1]
    /\ lpc' = [lpc EXCEPT ![i] = "process"]
    /\ Note("rpc")
    /\ UNCHANGED <<chain, faults, running, lctx, llast, stopped, lifeFrame>>

\* poll, lines 140-147: before an entry other than the first, ctx is done
LTickAbort(i) ==
    /\ lpc[i] = "process"
    /\ lidx[i] > 1
    /\ lctx[i]
    /\ lpc' = [lpc EXCEPT ![i] = "select"]
    /\ lbatch' = [lbatch EXCEPT ![i] = <<>>]
    /\ lidx' = [lidx EXCEPT ![i] = 0]
    /\ UNCHANGED <<chain, faults, lastSignature, running, lctx, llast, stopped, afterStop,
                   lifeFrame>>

\* poll, lines 133-163: one entry of the result is fetched, parsed and, when
\* that succeeds, handed to the handler; after the last entry poll returns
LTickEntry(i) ==
    /\ lpc[i] = "process"
    /\ \E txOK \in Outcomes :
         /\ Fault(txOK)
         /\ Note(IF txOK THEN "event" ELSE "rpc")
    /\ IF lidx[i] < Len(lbatch[i])
       THEN /\ lidx' = [lidx EXCEPT ![i] = lidx[i] + 1]
            /\ UNCHANGED <<lpc, lbatch>>
       ELSE /\ lpc' = [lpc EXCEPT ![i] = "select"]
            /\ lbatch' = [lbatch EXCEPT ![i] = <<>>]
            /\ lidx' = [lidx EXCEPT ![i] = 0]
    /\ UNCHANGED <<chain, lastSignature, running, lctx, llast, stopped, lifeFrame>>
\* ------------------------------------------------------------ Client.Call
\* (internal/rpc/client.go)

\* What one doRequest can meet: no response at all, a response with status
\* 429, 500 or 404, a 200 whose body does not decode, a 200 whose body does.
RequestFailures == {"transport", "429", "500", "404"}

AttemptOutcomes == RequestFailures \cup {"200bad", "200ok"}

\* doRequest, lines 194-206: the error it returns
DoRequestError(outcome) ==
    IF outcome = "transport" THEN "request failed"
    ELSE IF outcome = "429" THEN "rate limited (429)"
    ELSE "unexpected status code: " \o outcome

\* a backoff that stays what it was
NextBackoffSame(b) == b

\* Call, line 169: backoff *= 2
NextBackoff(b) == b * 2

\* a loop that allows one attempt more than configured
MoreAttemptsOneOver(a) == a <= maxRetries + 1

\* Call, line 156: the loop condition
MoreAttempts(a) == a <= maxRetries

RpcInit ==
    /\ maxRetries = 0
    /\ attempt = 0
    /\ rpcPc = "idle"
    /\ requests = <<>>
    /\ lastErr = ""
    /\ rpcCtxDone = FALSE
    /\ rpcRet = "none"
    /\ retryBackoff = 1
    /\ backoff = 0
    /\ waits = <<>>
    /\ waitCancelled = FALSE

\* Call, lines 139-156: the request is marshalled and the loop entered
CallStart ==
    /\ rpcPc = "idle"
    /\ attempt' = 0
    /\ IF MoreAttempts(0)
       THEN rpcPc' = "request" /\ rpcRet' = rpcRet
       ELSE rpcPc' = "returned" /\ rpcRet' = "max retries exceeded: " \o lastErr
    /\ backoff' = retryBackoff
    /\ UNCHANGED <<maxRetries, requests, lastErr, rpcCtxDone, retryBackoff, waits,
                   waitCancelled, rpcFrame>>

\* The ctx given to Call is cancelled.
CallCancel ==
    /\ rpcPc \in {"wait", "request"}
    /\ ~rpcCtxDone
    /\ rpcCtxDone' = TRUE
    /\ waitCancelled' = (rpcPc = "wait")
    /\ UNCHANGED <<maxRetries, attempt, rpcPc, requests, lastErr, rpcRet, retryBackoff,
                   backoff, waits, rpcFrame>>

\* Call, lines 164-166: the wait before a retry ends with <-ctx.Done()
CallWaitCancelled ==
    /\ rpcPc = "wait"
    /\ rpcCtxDone
    /\ rpcPc' = "returned"
    /\ rpcRet' = "context canceled"
    /\ UNCHANGED <<maxRetries, attempt, requests, lastErr, rpcCtxDone, backoffVars, rpcFrame>>

\* Call, lines 167-169: the wait before a retry ends with the timer, and the
\* backoff is doubled.  The goroutine is parked in the select from the start of
\* the wait, so the timer ends the wait only when it fires before the ctx is
\* cancelled.
CallWaitOver ==
    /\ rpcPc = "wait"
    /\ ~rpcCtxDone
    /\ rpcPc' = "request"
    /\ waits' = Append(waits, backoff)
    /\ backoff' = NextBackoff(backoff)
    /\ UNCHANGED <<maxRetries, attempt, requests, lastErr, rpcCtxDone, rpcRet, retryBackoff,
                   waitCancelled, rpcFrame>>

\* Call, lines 172-176 and 184: doRequest returns an error; the loop goes on
\* to the next attempt or ends.  A request made with a cancelled ctx gets no
\* response.
CallAttemptFails(outcome) ==
    /\ rpcPc = "request"
    /\ outcome \in RequestFailures
    /\ rpcCtxDone => outcome = "transport"
    /\ requests' = Append(requests, outcome)
    /\ lastErr' = DoRequestError(outcome)
    /\ attempt' = attempt + 1
    /\ IF MoreAttempts(attempt + 1)
       THEN rpcPc' = "wait" /\ rpcRet' = rpcRet
       ELSE rpcPc' = "returned" /\ rpcRet' = "max retries exceeded: " \o DoRequestError(outcome)
    /\ UNCHANGED <<maxRetries, rpcCtxDone, backoffVars, rpcFrame>>

\* Call, lines 178-180: the body of a 200 response does not unmarshal
CallAttemptBadBody ==
    /\ rpcPc = "request"
    /\ ~rpcCtxDone
    /\ requests' = Append(requests, "200bad")
    /\ rpcPc' = "returned"
    /\ rpcRet' = "failed to unmarshal response"
    /\ UNCHANGED <<maxRetries, attempt, lastErr, rpcCtxDone, backoffVars, rpcFrame>>

\* Call, lines 178-182: the body of a 200 response unmarshals
CallAttemptSucceeds ==
    /\ rpcPc = "request"
    /\ ~rpcCtxDone
    /\ requests' = Append(requests, "200ok")
    /\ rpcPc' = "returned"
    /\ rpcRet' = "nil"
    /\ UNCHANGED <<maxRetries, attempt, lastErr, rpcCtxDone, backoffVars, rpcFrame>>
\* ------------------------------------------------------------ parseTransaction
\* (internal/stream/rpc_poller.go, lines 169-281)

\* The token accounts of a transaction and their mints: two accounts hold
\* wrapped SOL, one holds USDC, one a token that is not in TokenSymbols.
MintOf ==
    (0 :> "So11111111111111111111111111111111111111112") @@
    (1 :> "EPjFWdd5AufqSSqeM2qN1xzybapC8G4wEGGkZwyTDt1v") @@
    (2 :> "So11111111111111111111111111111111111111112") @@
    (3 :> "9xQeWvG816bUx9EPjHmaT23yvVM2ZWbrrpZb9PusVFin")

AccountIndexes == DOMAIN MintOf

\* The token balances the endpoint lists for the accounts in the domain of
\* amounts: one TokenBalance for each, by ascending account index.
RECURSIVE BalanceList(_)
BalanceList(amounts) ==
    IF DOMAIN amounts = {} THEN <<>>
    ELSE LET i == SetMin(DOMAIN amounts) IN
         <<[accountIndex |-> i, mint |-> MintOf[i], uiAmount |-> amounts[i]]>>
             \o BalanceList([j \in DOMAIN amounts \ {i} |-> amounts[j]])

BalanceLists ==
    {BalanceList(amounts) :
        amounts \in UNION {[S -> 0..MaxAmount] : S \in SUBSET AccountIndexes \ {{}}}}

\* What getTransaction gives: an RPC error, a null result or meta, a
\* transaction that failed on chain, or token balances.
TransactionMetas ==
    {[state |-> s, pre |-> <<>>, post |-> <<>>] : s \in {"rpcerr", "empty", "failed"}}
    \cup {[state |-> "ok", pre |-> pre, post |-> post] : pre, post \in BalanceLists}

\* constants.TokenSymbols, and the fallback of getTokenSymbol
getTokenSymbol(mint) ==
    IF mint = "So11111111111111111111111111111111111111112" THEN "SOL"
    ELSE IF mint = "EPjFWdd5AufqSSqeM2qN1xzybapC8G4wEGGkZwyTDt1v" THEN "USDC"
    ELSE IF Len(mint) > 8
         THEN SubSeq(mint, 1, 4) \o "..." \o SubSeq(mint, Len(mint) - 3, Len(mint))
         ELSE mint

\* lines 192-198: balanceChanges, -pre for every pre entry, then += post
RECURSIVE SubtractPre(_, _)
SubtractPre(changes, pre) ==
    IF pre = <<>> THEN changes
    ELSE SubtractPre([changes EXCEPT ![pre[1].accountIndex] = 0 - pre[1].uiAmount], Tail(pre))

RECURSIVE AddPost(_, _)
AddPost(changes, post) ==
    IF post = <<>> THEN changes
    ELSE AddPost([changes EXCEPT ![post[1].accountIndex] = @ + post[1].uiAmount], Tail(post))

\* a map entry that is missing reads as 0
BalanceChanges(pre, post) == AddPost(SubtractPre([i \in AccountIndexes |-> 0], pre), post)

\* lines 201-210: the non-zero changes, one for each post entry
RECURSIVE NonZeroChanges(_, _)
NonZeroChanges(balanceChanges, post) ==
    IF post = <<>> THEN <<>>
    ELSE (IF balanceChanges[post[1].accountIndex] # 0
          THEN <<[mint |-> post[1].mint, amount |-> balanceChanges[post[1].accountIndex]]>>
          ELSE <<>>) \o NonZeroChanges(balanceChanges, Tail(post))

\* lines 218-229: the last negative change is the token sold, the last
\* positive one the token bought
RECURSIVE Direction(_, _)
Direction(acc, changes) ==
    IF changes = <<>> THEN acc
    ELSE LET ch == changes[1] IN
         Direction(IF ch.amount < 0
                   THEN [acc EXCEPT !.amountIn = 0 - ch.amount,
                                    !.tokenIn = getTokenSymbol(ch.mint)]
                   ELSE IF ch.amount > 0
                   THEN [acc EXCEPT !.amountOut = ch.amount,
                                    !.tokenOut = getTokenSymbol(ch.mint)]
                   ELSE acc,
                   Tail(changes))

\* the checks without the one on equal tokens
ValidSwapAnyTokens(d) ==
    ~(d.tokenIn = "" \/ d.tokenOut = "" \/ d.amountIn = 0 \/ d.amountOut = 0)

\* lines 232-241: the checks a swap must pass
ValidSwap(d) ==
    /\ ~(d.tokenIn = "" \/ d.tokenOut = "" \/ d.amountIn = 0 \/ d.amountOut = 0)
    /\ d.tokenIn # d.tokenOut

\* parseTransaction returned an error, or nil without error
ParseError == [kind |-> "error"]

NoSwap == [kind |-> "nil"]

\* lines 243-258: the event; the price is the quotient amountOut / amountIn,
\* kept as numerator and denominator
ParsedSwap(d) ==
    [kind |-> "swap", pair |-> d.tokenIn \o "/" \o d.tokenOut,
     tokenIn |-> d.tokenIn, tokenOut |-> d.tokenOut,
     amountIn |-> d.amountIn, amountOut |-> d.amountOut,
     price |-> [num |-> d.amountOut, den |-> d.amountIn]]

\* parseTransaction, lines 169-268
parseTransaction(meta) ==
    IF meta.state # "ok" THEN ParseError
    ELSE IF Len(meta.pre) < 2 \/ Len(meta.post) < 2 THEN NoSwap
    ELSE LET changes == NonZeroChanges(BalanceChanges(meta.pre, meta.post), meta.post)
             d == Direction([tokenIn |-> "", tokenOut |-> "", amountIn |-> 0, amountOut |-> 0],
                            changes)
         IN IF Len(changes) < 2 THEN NoSwap
            ELSE IF ~ValidSwap(d) THEN NoSwap
            ELSE ParsedSwap(d)

DecoderInit ==
    /\ dmeta = [state |-> "empty", pre |-> <<>>, post |-> <<>>]
    /\ dpc = "ready"
    /\ dres = NoSwap
    /\ dhandled = <<>>

\* poll, line 154: parseTransaction on what getTransaction gave
ParseTransaction ==
    /\ dpc = "ready"
    /\ dres' = parseTransaction(dmeta)
    /\ dpc' = "parsed"
    /\ UNCHANGED <<dmeta, dhandled, decoderFrame>>

\* poll, lines 155-162: an error is logged, a swap is handed to the handler
HandOver ==
    /\ dpc = "parsed"
    /\ dhandled' = IF dres.kind = "swap" THEN Append(dhandled, dres) ELSE dhandled
    /\ dpc' = "done"
    /\ UNCHANGED <<dmeta, dres, decoderFrame>>

\* ------------------------------------------------------------ SubscribeSwaps
\* (internal/cache/redis.go, lines 173-226)

\* capacity of swapChan
SwapChanCap == 100

\* A message on the swaps channel is the JSON of a swap or something that
\* does not unmarshal.
Messages == {"swap", "junk"}

\* a send that puts the event into the channel whatever it holds
TrySendUnbounded(n) == n + 1

\* lines 217-221: the select with a default case puts the event into swapChan
\* when there is room and leaves the channel as it is when there is none
TrySend(n) == IF n < SwapChanCap THEN n + 1 ELSE n

SubInit ==
    /\ subPc = "nosub"
    /\ subCtxDone = FALSE
    /\ pubsubOpen = FALSE
    /\ inflight = <<>>
    /\ inhand = ""
    /\ buffered = 0
    /\ closes = 0
    /\ sentAfterClose = FALSE
    /\ lastFwd = "none"
    /\ everDropped = FALSE

\* lines 174-201: Subscribe and Receive; on success swapChan is made and the
\* goroutine started, on failure the error is returned
SubscribeSwaps ==
    /\ subPc = "nosub"
    /\ \E ok \in Outcomes :
         /\ Fault(ok)
         /\ subPc' = IF ok THEN "select" ELSE "failed"
         /\ pubsubOpen' = ok
    /\ UNCHANGED <<subCtxDone, inflight, inhand, buffered, closes, sentAfterClose, lastFwd,
                   everDropped, subFrame>>

\* The ctx given to SubscribeSwaps is cancelled.
SubCancel ==
    /\ subPc \notin {"nosub", "failed"}
    /\ ~subCtxDone
    /\ subCtxDone' = TRUE
    /\ UNCHANGED <<faults, subPc, pubsubOpen, inflight, inhand, buffered, closes,
                   sentAfterClose, lastFwd, everDropped, subFrame>>

\* PublishSwap, lines 150-168, as ProcessSwap calls it: PUBLISH returns once
\* the server has the message; the message reaches the subscription when it
\* is held and the client library has room for it, and is lost otherwise.
PublishLive(m) ==
    /\ inflight' = IF pubsubOpen /\ Len(inflight) < MaxInFlight
                   THEN Append(inflight, m)
                   ELSE inflight
    /\ UNCHANGED <<faults, subPc, subCtxDone, pubsubOpen, inhand, buffered, closes,
                   sentAfterClose, lastFwd, everDropped, subFrame>>

\* The consumer receives one event from swapChan.
Consume ==
    /\ buffered > 0
    /\ buffered' = buffered - 1
    /\ UNCHANGED <<faults, subPc, subCtxDone, pubsubOpen, inflight, inhand, closes,
                   sentAfterClose, lastFwd, everDropped, subFrame>>

\* lines 197-200: the select takes <-ctx.Done()
FwdCancelSeen ==
    /\ subPc = "select"
    /\ subCtxDone
    /\ subPc' = "unsub"
    /\ UNCHANGED <<faults, subCtxDone, pubsubOpen, inflight, inhand, buffered, closes,
                   sentAfterClose, lastFwd, everDropped, subFrame>>

\* lines 202-206: the select takes a message from the subscription
FwdReceive ==
    /\ subPc = "select"
    /\ inflight # <<>>
    /\ inhand' = Head(inflight)
    /\ inflight' = Tail(inflight)
    /\ subPc' = "send"
    /\ UNCHANGED <<faults, subCtxDone, pubsubOpen, buffered, closes, sentAfterClose, lastFwd,
                   everDropped, subFrame>>

\* lines 208-222: the message is unmarshalled; one that does not unmarshal is
\* skipped, a swap is sent on swapChan without blocking
FwdSend ==
    /\ subPc = "send"
    /\ IF inhand = "junk"
       THEN /\ lastFwd' = "skipped"
            /\ UNCHANGED <<buffered, sentAfterClose, everDropped>>
       ELSE /\ buffered' = TrySend(buffered)
            /\ lastFwd' = IF TrySend(buffered) = buffered THEN "dropped" ELSE "sent"
            /\ everDropped' = (everDropped \/ TrySend(buffered) = buffered)
            /\ sentAfterClose' = (sentAfterClose \/ (closes > 0 /\ TrySend(buffered) # buffered))
    /\ inhand' = ""
    /\ subPc' = "select"
    /\ UNCHANGED <<faults, subCtxDone, pubsubOpen, inflight, closes, subFrame>>

\* lines 190-194: the deferred pubsub.Close() releases the subscription
FwdUnsubscribe ==
    /\ subPc = "unsub"
    /\ pubsubOpen' = FALSE
    /\ inflight' = <<>>
    /\ subPc' = "close"
    /\ UNCHANGED <<faults, subCtxDone, inhand, buffered, closes, sentAfterClose, lastFwd,
                   everDropped, subFrame>>

\* a goroutine that ends without closing swapChan
FwdCloseForgotten ==
    /\ subPc = "close"
    /\ subPc' = "exited"
    /\ UNCHANGED <<faults, subCtxDone, pubsubOpen, inflight, inhand, buffered, closes,
                   sentAfterClose, lastFwd, everDropped, subFrame>>

\* line 189: the deferred close(swapChan), and the goroutine ends
FwdClose ==
    /\ subPc = "close"
    /\ closes' = closes + 1
    /\ subPc' = "exited"
    /\ UNCHANGED <<faults, subCtxDone, pubsubOpen, inflight, inhand, buffered, sentAfterClose,
                   lastFwd, everDropped, subFrame>>

\* ------------------------------------------------------------ cache reads
\* What swaps:recent may hold when it is read
Entries == {Marshal(SwapEvent(1)), Marshal(SwapEvent(2)), Malformed}
RecentLists == UNION {[1..n -> Entries] : n \in 0..MaxEntries}

\* The limits GetRecentSwaps is called with (Handlers.RecentSwaps passes
\* 1..200), and the :token parameters of GET /v1/prices/:token
Limits == 1..(MaxEntries + 1)
TokenParams == {"sol", "USDC", "XYZ", " "}

NoCall == [op |-> "none", arg |-> 0]
NoReply == [ok |-> TRUE, data |-> <<>>]
FailedReply == [ok |-> FALSE, data |-> <<>>]

ReadInit ==
    /\ rdPc = "idle"
    /\ rdCall = NoCall
    /\ rdReply = NoReply
    /\ rdOut = <<>>
    /\ rdErr = ""
    /\ rdStatus = 0

\* RedisCache.UpdatePrice(token, price), as ProcessSwap calls it for one
\* event after another
UpdatePriceCall(token, price) ==
    /\ \E ok \in Outcomes :
         /\ Fault(ok)
         /\ prices' = IF ok THEN SetPrice(prices, token, price) ELSE prices
         /\ lastUpdate' = IF ok THEN Updated(lastUpdate, token, price) ELSE lastUpdate
    /\ UNCHANGED <<ring, readVars, readFrame>>

\* RedisCache.GetRecentSwaps(limit): LRANGE swaps:recent 0 limit-1, then
\* the decoding loop; the call fails only when the LRANGE fails.
GetRecentSwapsCall(limit) ==
    /\ rdPc = "idle"
    /\ \E ok \in Outcomes :
         /\ Fault(ok)
         /\ rdReply' = IF ok THEN [ok |-> TRUE, data |-> LRange(ring, 0, limit - 1)]
                       ELSE FailedReply
         /\ rdOut' = IF ok THEN GetRecentSwaps(limit) ELSE <<>>
         /\ rdErr' = IF ok THEN "" ELSE "failed to get recent swaps"
    /\ rdCall' = [op |-> "GetRecentSwaps", arg |-> limit]
    /\ rdStatus' = 0
    /\ rdPc' = "done"
    /\ UNCHANGED <<ring, prices, lastUpdate, readFrame>>

\* Redis GET price:<token>: the value, or nothing (redis.Nil)
RedisGet(token) == IF token \in DOMAIN prices THEN prices[token] ELSE NoValue

\* a GetPrice that reports a missing key as an error
GetPriceMissingIsError(reply) ==
    IF ~reply.ok \/ reply.data = NoValue THEN [price |-> 0, err |-> "failed to get price"]
    ELSE LET f == ParseFloat(reply.data.val)
         IN IF f.ok THEN [price |-> f.val, err |-> ""]
            ELSE [price |-> 0, err |-> "failed to parse price"]

\* RedisCache.GetPrice, from the reply to its GET: what it returns
GetPrice(reply) ==
    IF reply.ok /\ reply.data = NoValue THEN [price |-> 0, err |-> ""]
    ELSE IF ~reply.ok THEN [price |-> 0, err |-> "failed to get price"]
    ELSE LET f == ParseFloat(reply.data.val)
         IN IF f.ok THEN [price |-> f.val, err |-> ""]
            ELSE [price |-> 0, err |-> "failed to parse price"]

\* Handlers.Price: GET /v1/prices/:token
Price(param) ==
    /\ rdPc = "idle"
    /\ rdCall' = [op |-> "Price", arg |-> ToUpper(TrimSpace(param))]
    /\ IF TrimSpace(param) = ""
       THEN /\ faults' = faults
            /\ rdReply' = NoReply
            /\ rdOut' = 0
            /\ rdErr' = ""
            /\ rdStatus' = 400
       ELSE \E ok \in Outcomes :
              LET reply == IF ok
                           THEN [ok |-> TRUE, data |-> RedisGet(ToUpper(TrimSpace(param)))]
                           ELSE FailedReply
                  res == GetPrice(reply)
              IN /\ Fault(ok)
                 /\ rdReply' = reply
                 /\ rdOut' = res.price
                 /\ rdErr' = res.err
                 /\ rdStatus' = IF res.err = "" THEN 200 ELSE 500
    /\ rdPc' = "done"
    /\ UNCHANGED <<ring, prices, lastUpdate, readFrame>>

\* The caller has its answer (the fields keep the last call's outcome); the
\* next call may start.
ReadReturn ==
    /\ rdPc = "done"
    /\ rdPc' = "idle"
    /\ UNCHANGED <<faults, ring, prices, lastUpdate, rdCall, rdReply, rdOut, rdErr, rdStatus,
                   readFrame>>

\* ---------------------------------------------------------- swap engine
\* Time is counted in units of 12 hours: the tracker's window of
\* 24 * time.Hour is two units.
WindowUnits == 2

\* DefaultRiskConfig: MaxSwapAmountSOL
MaxSwapAmountSOL == 1

\* The ExecuteSwap calls that may run at once on one Executor.
Executions == {"x1", "x2"}

RECURSIVE SumAmounts(_)
SumAmounts(records) ==
    IF records = <<>> THEN 0 ELSE Head(records).amountSOL + SumAmounts(Tail(records))

\* DailyLimitTracker.cleanup at time t: the records with timestamp.After(t - 24h)
cleanup(records, t) == SelectSeq(records, LAMBDA r : r.timestamp > t - WindowUnits)

\* DailyLimitTracker.GetDailyUsage at time t
GetDailyUsage(records, t) == SumAmounts(cleanup(records, t))

RiskInit ==
    /\ dailyLimit = 1
    /\ trackerSwaps = <<>>
    /\ riskNow = 0
    /\ epc = [x \in Executions |-> "idle"]
    /\ seen = [x \in Executions |-> <<>>]
    /\ recorded = <<>>

\* ExecuteSwap up to its risk check: RiskManager.CheckSwap of a swap worth
\* value SOL.  GetDailyUsage cleans the list up as it reads it.
CheckSwap(x, value) ==
    /\ epc[x] \notin {"checked", "recording"}
    /\ Len(recorded) < MaxRecorded
    /\ trackerSwaps' = cleanup(trackerSwaps, riskNow)
    /\ epc' = [epc EXCEPT ![x] =
                 IF value > MaxSwapAmountSOL THEN "rejected"
                 ELSE IF GetDailyUsage(trackerSwaps, riskNow) + value > dailyLimit THEN "rejected"
                 ELSE "checked"]
    /\ UNCHANGED <<dailyLimit, riskNow, seen, recorded, riskFrame>>

\* ExecuteSwap between the check and RecordSwap: building, simulating,
\* sending or confirming the transaction fails, and nothing is recorded.
ExecuteFails(x) ==
    /\ epc[x] = "checked"
    /\ epc' = [epc EXCEPT ![x] = "failed"]
    /\ UNCHANGED <<dailyLimit, trackerSwaps, riskNow, seen, recorded, riskFrame>>

\* DailyLimitTracker.RecordSwap, the append: it reads t.swaps ...
RecordSwapRead(x) ==
    /\ epc[x] = "checked"
    /\ seen' = [seen EXCEPT ![x] = trackerSwaps]
    /\ epc' = [epc EXCEPT ![x] = "recording"]
    /\ UNCHANGED <<dailyLimit, trackerSwaps, riskNow, recorded, riskFrame>>

\* ... and writes the list with its record added (no lock is held: what
\* another call has written since the read is lost), then cleans up.
RecordSwapWrite(x) ==
    /\ epc[x] = "recording"
    /\ LET rec == [timestamp |-> riskNow, amountSOL |-> MaxSwapAmountSOL]
       IN /\ trackerSwaps' = cleanup(Append(seen[x], rec), riskNow)
          /\ recorded' = Append(recorded, rec)
    /\ seen' = [seen EXCEPT ![x] = <<>>]
    /\ epc' = [epc EXCEPT ![x] = "done"]
    /\ UNCHANGED <<dailyLimit, riskNow, riskFrame>>

\* twelve hours pass
RiskTick ==
    /\ riskNow < MaxRiskTime
    /\ riskNow' = riskNow + 1
    /\ UNCHANGED <<dailyLimit, trackerSwaps, epc, seen, recorded, riskFrame>>

\* ------------------------------------------------------ indexer shutdown
MainInit == connsClosed = FALSE

\* cmd/indexer main after the signal: cancel() has been called, main
\* returns, and its deferred indexer.Close() closes the cache and the store.
\* main does not wait for the goroutine that runs poller.Start.
CloseConnections ==
    /\ cancelled
    /\ ~connsClosed
    /\ connsClosed' = TRUE
    /\ UNCHANGED <<pipelineVars, mainFrame>>

\* ---------------------------------------------------------- API shutdown
\* Server.Shutdown: context.WithTimeout(ctx, 10*time.Second)
ShutdownDeadline == 10

StopInit ==
    /\ apiMain = "serving"
    /\ sigPc = "waiting"
    /\ reqs = 0
    /\ waited = 0
    /\ srvClosed = FALSE
    /\ cutOff = 0

ApiAlive == apiMain # "exited"

\* A request arrives while the listener is open.
RequestBegins ==
    /\ ApiAlive
    /\ sigPc = "waiting"
    /\ reqs < MaxRequests
    /\ reqs' = reqs + 1
    /\ UNCHANGED <<apiMain, sigPc, waited, srvClosed, cutOff, stopFrame>>

\* A handler returns its response.
RequestEnds ==
    /\ ApiAlive
    /\ reqs > 0
    /\ reqs' = reqs - 1
    /\ UNCHANGED <<apiMain, sigPc, waited, srvClosed, cutOff, stopFrame>>

\* SIGINT / SIGTERM: the goroutine leaves <-sigCh, cancels ctx and enters
\* srv.Shutdown, which closes the listener before it waits for the requests.
SignalReceived ==
    /\ ApiAlive
    /\ sigPc = "waiting"
    /\ sigPc' = "shutdown"
    /\ UNCHANGED <<apiMain, reqs, waited, srvClosed, cutOff, stopFrame>>

\* main: srv.Start returns "http: Server closed" as soon as Shutdown has
\* closed the listener, and main returns at once; the process exits, and
\* with it the signal goroutine and the handlers still running.
StartReturns ==
    /\ apiMain = "serving"
    /\ sigPc \in {"shutdown", "done"}
    /\ apiMain' = "exited"
    /\ cutOff' = reqs
    /\ UNCHANGED <<sigPc, reqs, waited, srvClosed, stopFrame>>

\* Shutdown waits: a second passes with requests still in flight.
ShutdownWaits ==
    /\ ApiAlive
    /\ sigPc = "shutdown"
    /\ reqs > 0
    /\ waited < ShutdownDeadline
    /\ waited' = waited + 1
    /\ UNCHANGED <<apiMain, sigPc, reqs, srvClosed, cutOff, stopFrame>>

\* Server.Shutdown returns: no request is left or the deadline has passed;
\* its deferred close(s.closed) runs.
ShutdownReturns ==
    /\ ApiAlive
    /\ sigPc = "shutdown"
    /\ reqs = 0 \/ waited = ShutdownDeadline
    /\ sigPc' = "done"
    /\ srvClosed' = TRUE
    /\ UNCHANGED <<apiMain, reqs, waited, cutOff, stopFrame>>

\* ------------------------------------------------------------ specifications
vars == <<pipelineVars, writerVars, flagVars, agentVars, validatorVars, handlerVars, apiVars,
          lifeVars, rpcVars, decoderVars, subVars, readVars, stopVars, mainVars, riskVars, listVars>>

\* The indexer before its first transaction, on one chain.
PipelineIdle ==
    /\ chain = 0
    /\ txKind = AllSwaps
    /\ faults = 0
    /\ PollerInit
    /\ HistInit
    /\ SinkInit
    /\ ring = <<>>

OthersIdle ==
    /\ WriterInit
    /\ FlagInit
    /\ AgentInit
    /\ ValidatorInit
    /\ HandlerInit
    /\ ApiInit
    /\ LifeInit
    /\ RpcInit
    /\ DecoderInit
    /\ SubInit
    /\ ReadInit
    /\ StopInit
    /\ MainInit
    /\ RiskInit
    /\ ListInit

Init ==
    /\ PipelineInit
    /\ OthersIdle

\* The indexer in one process: the chain grows, the poller polls.
Next ==
    \/ AppendTx
    \/ PollerStep

Spec == Init /\ [][Next]_vars

\* The indexer with process crashes and restarts.
CrashNext ==
    \/ AppendTx
    \/ PollerStep
    \/ Crash

CrashSpec == Init /\ [][CrashNext]_vars

\* The cache under concurrent AddRecentSwap calls.
CacheSpecInit ==
    /\ CacheInit
    /\ OthersIdle

CacheNext ==
    \/ \E w \in Writers : WriterLPush(w)
    \/ \E w \in Writers : WriterLTrim(w)

CacheSpec == CacheSpecInit /\ [][CacheNext]_vars

\* The flag store under concurrent callers: every call is one transaction.
FlagSpecInit ==
    /\ PipelineIdle
    /\ OthersIdle

FlagNext ==
    \/ \E key \in CommonKeys, value \in BOOLEAN : Upsert(key, value)
    \/ \E key \in CommonKeys : Delete(key)
    \/ ClockTick

FlagSpec == FlagSpecInit /\ [][FlagNext]_vars

\* List calls on a flag store that other clients write to.
ListSpecInit ==
    /\ PipelineIdle
    /\ WriterInit
    /\ rdb \in ListStores
    /\ clock = 0
    /\ lastWrite = [k \in ValidFlagKeys |-> [op |-> "none"]]
    /\ flagRet = [op |-> "none", key |-> "", err |-> ""]
    /\ AgentInit
    /\ ValidatorInit
    /\ HandlerInit
    /\ ApiInit
    /\ LifeInit
    /\ RpcInit
    /\ DecoderInit
    /\ SubInit
    /\ ReadInit
    /\ StopInit
    /\ MainInit
    /\ RiskInit
    /\ ListInit

ListNext ==
    \/ ListSMembers
    \/ ListMGet
    \/ \E key \in CommonKeys, value \in BOOLEAN : Upsert(key, value)
    \/ \E key \in CommonKeys : Delete(key)

ListSpec == ListSpecInit /\ [][ListNext]_vars

\* The flag store called with keys of every kind, at one instant.
KeySpecInit ==
    /\ PipelineIdle
    /\ OthersIdle

KeyNext ==
    \/ \E key \in EdgeKeys, value \in BOOLEAN : Upsert(key, value)
    \/ \E key \in EdgeKeys : Delete(key)
    \/ \E key \in EdgeKeys : GetCall(key)

KeySpec == KeySpecInit /\ [][KeyNext]_vars

\* The agent answering one question after another.
AgentSpecInit ==
    /\ PipelineIdle
    /\ WriterInit
    /\ FlagInit
    /\ AgentInit
    /\ ValidatorInit
    /\ devMode \in BOOLEAN
    /\ aiResp = NoResponse
    /\ ApiInit
    /\ LifeInit
    /\ RpcInit
    /\ DecoderInit
    /\ SubInit
    /\ ReadInit
    /\ StopInit
    /\ MainInit
    /\ RiskInit
    /\ ListInit

AgentNext ==
    \/ AskStart
    \/ GenerateSQL
    \/ RunQuery
    \/ SummariseResult
    \/ AIAskEarly
    \/ AIAskRespond

AgentSpec == AgentSpecInit /\ [][AgentNext]_vars

\* Requests against the API, with and without an API key configured.
ApiSpecInit ==
    /\ PipelineIdle
    /\ WriterInit
    /\ FlagInit
    /\ AgentInit
    /\ ValidatorInit
    /\ HandlerInit
    /\ apiKey \in ApiKeys
    /\ now = 0
    /\ visitors = [c \in Clients |-> NoLimiter]
    /\ askLog = <<>>
    /\ lastResp = NoRequest
    /\ LifeInit
    /\ RpcInit
    /\ DecoderInit
    /\ SubInit
    /\ ReadInit
    /\ StopInit
    /\ MainInit
    /\ RiskInit
    /\ ListInit

ApiNext ==
    \/ \E c \in Clients, route \in {HealthRoute, AskRoute}, key \in HeaderKeys :
         ApiRefused(c, route, key)
    \/ \E c \in Clients, key \in HeaderKeys : ApiHealth(c, key)
    \/ \E c \in Clients, key \in HeaderKeys : ApiAskAllowed(c, key)
    \/ \E c \in Clients, key \in HeaderKeys : ApiAskLimited(c, key)
    \/ ApiTick

ApiSpec == ApiSpecInit /\ [][ApiNext]_vars

\* Start, Stop and cancellation called on one poller in any order.
LifecycleSpecInit ==
    /\ PipelineIdle
    /\ OthersIdle

LifecycleNext ==
    \/ AppendTx
    \/ \E i \in StartCalls : LStart(i)
    \/ \E i \in StartCalls : LStartRefused(i)
    \/ LStop
    \/ \E i \in StartCalls : LCancel(i)
    \/ \E i \in StartCalls : LExit(i)
    \/ \E i \in StartCalls : LTickRead(i)
    \/ \E i \in StartCalls : LTickNothing(i)
    \/ \E i \in StartCalls : LTickFetch(i)
    \/ \E i \in StartCalls : LTickAbort(i)
    \/ \E i \in StartCalls : LTickEntry(i)

LifecycleSpec == LifecycleSpecInit /\ [][LifecycleNext]_vars

\* One Client.Call, for each configured number of retries.
RpcSpecInit ==
    /\ PipelineIdle
    /\ WriterInit
    /\ FlagInit
    /\ AgentInit
    /\ ValidatorInit
    /\ HandlerInit
    /\ ApiInit
    /\ LifeInit
    /\ maxRetries \in 0..MaxRetries
    /\ attempt = 0
    /\ rpcPc = "idle"
    /\ requests = <<>>
    /\ lastErr = ""
    /\ rpcCtxDone = FALSE
    /\ rpcRet = "none"
    /\ retryBackoff \in 1..MaxBackoff
    /\ backoff = 0
    /\ waits = <<>>
    /\ waitCancelled = FALSE
    /\ DecoderInit
    /\ SubInit
    /\ ReadInit
    /\ StopInit
    /\ MainInit
    /\ RiskInit
    /\ ListInit

RpcNext ==
    \/ CallStart
    \/ CallCancel
    \/ CallWaitCancelled
    \/ CallWaitOver
    \/ \E outcome \in AttemptOutcomes : CallAttemptFails(outcome)
    \/ CallAttemptBadBody
    \/ CallAttemptSucceeds

RpcSpec == RpcSpecInit /\ [][RpcNext]_vars

\* parseTransaction applied to one transaction.
DecoderSpecInit ==
    /\ PipelineIdle
    /\ WriterInit
    /\ FlagInit
    /\ AgentInit
    /\ ValidatorInit
    /\ HandlerInit
    /\ ApiInit
    /\ LifeInit
    /\ RpcInit
    /\ dmeta \in TransactionMetas
    /\ dpc = "ready"
    /\ dres = NoSwap
    /\ dhandled = <<>>
    /\ SubInit
    /\ ReadInit
    /\ StopInit
    /\ MainInit
    /\ RiskInit
    /\ ListInit

DecoderNext ==
    \/ ParseTransaction
    \/ HandOver

DecoderSpec == DecoderSpecInit /\ [][DecoderNext]_vars

\* One subscription to the live channel, its consumer and the publisher.
SubSpecInit ==
    /\ PipelineIdle
    /\ OthersIdle

SubNext ==
    \/ SubscribeSwaps
    \/ SubCancel
    \/ \E m \in Messages : PublishLive(m)
    \/ Consume
    \/ FwdCancelSeen
    \/ FwdReceive
    \/ FwdSend
    \/ FwdUnsubscribe
    \/ FwdClose

SubSpec == SubSpecInit /\ [][SubNext]_vars

\* The same with the goroutine scheduled fairly: it takes the step it is at,
\* and a select that finds ctx.Done() ready again and again takes it in the
\* end (the select chooses among its ready cases at random).
SubLiveSpec ==
    /\ SubSpec
    /\ WF_vars(FwdReceive)
    /\ WF_vars(FwdSend)
    /\ SF_vars(FwdCancelSeen)
    /\ WF_vars(FwdUnsubscribe)
    /\ WF_vars(FwdClose)

\* GetRecentSwaps called on one list after another.
ReadSpecInit ==
    /\ chain = 0
    /\ txKind = AllSwaps
    /\ faults = 0
    /\ PollerInit
    /\ HistInit
    /\ SinkInit
    /\ ring \in RecentLists
    /\ OthersIdle

ReadNext ==
    \/ \E limit \in Limits : GetRecentSwapsCall(limit)
    \/ ReadReturn

ReadSpec == ReadSpecInit /\ [][ReadNext]_vars

\* GET /v1/prices/:token between the price updates of the indexer.
PriceSpecInit ==
    /\ PipelineIdle
    /\ OthersIdle

PriceNext ==
    \/ \E token \in Tokens, price \in 1..MaxPrice : UpdatePriceCall(token, price)
    \/ \E param \in TokenParams : Price(param)
    \/ ReadReturn

PriceSpec == PriceSpecInit /\ [][PriceNext]_vars

\* GET /v1/prices/:token for the symbols the decoder gives its events.
DecoderSymbols == {getTokenSymbol(MintOf[i]) : i \in AccountIndexes}

SymbolSpecInit ==
    /\ PipelineIdle
    /\ OthersIdle

SymbolNext ==
    \/ \E token \in DecoderSymbols, price \in {1, MaxPrice} : UpdatePriceCall(token, price)
    \/ \E param \in DecoderSymbols : Price(param)
    \/ ReadReturn

SymbolSpec == SymbolSpecInit /\ [][SymbolNext]_vars

\* The indexer process up to the close of its connections.
IndexerShutdownNext ==
    \/ AppendTx
    \/ PollerStep
    \/ CloseConnections

IndexerShutdownSpec == Init /\ [][IndexerShutdownNext]_vars

\* ExecuteSwap calls on one RiskManager, some of them at once.
RiskSpecInit ==
    /\ PipelineIdle
    /\ WriterInit
    /\ FlagInit
    /\ AgentInit
    /\ ValidatorInit
    /\ HandlerInit
    /\ ApiInit
    /\ LifeInit
    /\ RpcInit
    /\ DecoderInit
    /\ SubInit
    /\ ReadInit
    /\ StopInit
    /\ MainInit
    /\ dailyLimit \in 1..MaxDailyLimit
    /\ trackerSwaps = <<>>
    /\ riskNow = 0
    /\ epc = [x \in Executions |-> "idle"]
    /\ seen = [x \in Executions |-> <<>>]
    /\ recorded = <<>>
    /\ ListInit

RiskNext ==
    \/ \E x \in Executions, value \in 1..(MaxSwapAmountSOL + 1) : CheckSwap(x, value)
    \/ \E x \in Executions : ExecuteFails(x)
    \/ \E x \in Executions : RecordSwapRead(x)
    \/ \E x \in Executions : RecordSwapWrite(x)
    \/ RiskTick

RiskSpec == RiskSpecInit /\ [][RiskNext]_vars

\* The API process from serving to its exit.
ApiShutdownSpecInit ==
    /\ PipelineIdle
    /\ OthersIdle

ApiShutdownNext ==
    \/ RequestBegins
    \/ RequestEnds
    \/ SignalReceived
    \/ StartReturns
    \/ ShutdownWaits
    \/ ShutdownReturns

ApiShutdownSpec == ApiShutdownSpecInit /\ [][ApiShutdownNext]_vars

\* validateSQL applied to one text after another.
ValidatorSpecInit ==
    /\ PipelineIdle
    /\ OthersIdle

ValidatorNext == \E q \in ValidatorInputs : ValidateCall(q)

ValidatorSpec == ValidatorSpecInit /\ [][ValidatorNext]_vars

\* ------------------------------------------------------------------ claims
\* Positions inside a tick's per-signature loop, the handler included
TickPcs == {"processing", "add_lpush", "add_ltrim", "price", "insert", "publish", "handled"}

CacheOps == {"LPush", "LTrim", "UpdatePrice", "PublishSwap"}

LogOps == {hlog[i].op : i \in 1..Len(hlog)}

InsertFailed == \E i \in 1..Len(hlog) : hlog[i].op = "InsertSwap" /\ ~hlog[i].ok

\* C1: for every event handed to ProcessSwap the store insert is the first
\* sink call made, and when the insert fails ProcessSwap returns the error
\* with no recent-ring write, no price update and no publish made for it.
C1_InsertFirstAndFatal ==
    /\ hlog # <<>> => hlog[1].op = "InsertSwap"
    /\ InsertFailed => (hret = "err" /\ LogOps \cap CacheOps = {})

C3_NoRefetchAfterAbort ==
    /\ pc \in TickPcs => lastSignature = batch[1]
    /\ lateFetch = {}

\* The part of C3 that holds: during a tick the cursor is the newest
\* signature of its batch from before the first getTransaction call on, and
\* no tick fetches a signature of a batch whose tick was aborted by
\* cancellation earlier in the same process.
C3_NoRefetchAfterCancel ==
    /\ pc \in TickPcs => lastSignature = batch[1]
    /\ lateFetchRun = {}

\* A tick was aborted by cancellation, the poller was started again, and a
\* later tick has fetched a newer signature.
C3_Witness ==
    /\ abortedRun # {}
    /\ pc \in TickPcs
    /\ \E s \in fetched : \A a \in abortedRun : s > a

\* C4: subsequent ticks catch up on what one tick leaves.  A signature at or
\* below the cursor is never returned again, so with no tick aborted, every
\* error-free signature newer than the baseline and not newer than the
\* cursor has been fetched by the time a tick is over.
C4_TicksCatchUp ==
    (pc = "waiting" /\ aborted = {} /\ baseline # 0) =>
        \A s \in Sigs :
            (baseline < s /\ s <= lastSignature /\ txKind[s] # "failed") => s \in fetched

\* C6: between ticks GetRecentSwaps lists events newest first: an event
\* listed before another is not older in chain order.
C6_RecentNewestFirst ==
    pc = "waiting" =>
        LET swaps == GetRecentSwaps(MaxRecentSwaps)
        IN \A i, j \in 1..Len(swaps) : i < j => swaps[i].signature >= swaps[j].signature

\* C5: in every state of the cache, the states between the steps of one
\* AddRecentSwap and under concurrent writers included, swaps:recent holds
\* at most MaxRecentSwaps entries, and no GetRecentSwaps call returns more.
C5_RingNeverExceedsMax ==
    /\ Len(ring) <= MaxRecentSwaps
    /\ Len(GetRecentSwaps(RecentLimitMax)) <= MaxRecentSwaps

IndexMembers == IF rdb[indexKey].type = "set" THEN rdb[indexKey].members ELSE {}

\* C7: in every state between two store commands a key is a member of
\* flags:index if and only if a flag value is stored under flags:<key>.
C7_IndexIffValue ==
    \A k \in ValidFlagKeys : (k \in IndexMembers) <=> (rdb[flagKey(k)].type = "string")

ListEntriesFor(k) == {e \in List.items : e[2].key = k}

\* C8: after a successful Upsert(k, v) and before any later write to k,
\* Get(k) returns the flag Upsert returned and List() has exactly one entry
\* for k, with value v; after a successful Delete(k), Get(k) returns
\* NotFound and List() has no entry for k.
C8_UpsertGetListRoundTrip ==
    \A k \in ValidFlagKeys :
        /\ lastWrite[k].op = "upsert" =>
              /\ Get(k) = [err |-> "", flag |-> lastWrite[k].flag]
              /\ List.err = ""
              /\ Cardinality(ListEntriesFor(k)) = 1
              /\ \A e \in ListEntriesFor(k) : e[2].value = lastWrite[k].flag.value
        /\ lastWrite[k].op = "delete" =>
              /\ Get(k) = [err |-> "flag not found"]
              /\ ListEntriesFor(k) = {}

\* C9: every SQL string handed to the analytics store is the sanitized form
\* of an LLM response and passes validateSQL; the query Ask holds while it
\* runs and summarises is the sanitized, validated response of this Ask;
\* and when validation fails Ask has returned that error with no query
\* executed and no summarising call made.
C9_OnlyValidatedSQLExecuted ==
    /\ \A q \in executed :
          /\ \E r \in LLMResponses : q = sanitizeSQL(r)
          /\ validateSQL(q) = ""
    /\ apc \in {"run", "summarise"} =>
          /\ sqlQuery = sanitizeSQL(llmResp)
          /\ validateSQL(sqlQuery) = ""
    /\ (ranQuery \/ ranSummary) => sqlQuery \in executed
    /\ (llmResp # "" /\ validateSQL(sanitizeSQL(llmResp)) # "") =>
          /\ apc \in {"returned", "responded"}
          /\ askErr = validateSQL(sanitizeSQL(llmResp))
          /\ ~ranQuery
          /\ ~ranSummary
          /\ sqlQuery \notin executed

\* C9 witness: one Ask has executed its query, and a later Ask has been
\* refused by the validator before running anything.
C9_Witness ==
    /\ executed # {}
    /\ apc = "returned"
    /\ askErr = "disallowed SQL keyword"
    /\ ~ranQuery
    /\ ~ranSummary

\* The keyword check and the prefix check applied to a text as it stands
RejectedAsWritten(text) ==
    \/ text = ""
    \/ ~HasPrefix(ToUpper(text), "SELECT")
    \/ \E i \in 1..Len(disallowed) : Contains(ToUpper(text), disallowed[i])

\* The two queries the validator is to accept, in any letter case
AcceptedShapes ==
    {"SELECT X FROM SWAPS WHERE PAIR = 'SOL/USDC'", "SELECT X FROM SOLANA.SWAPS"}

\* C10 (as claimed): validateSQL rejects every text that is empty, does not
\* start with SELECT, holds a disallowed keyword followed by a space anywhere,
\* or holds ';', and accepts the two sample queries in any letter case.
C10_ValidatorRules ==
    vout # "none" =>
        /\ (RejectedAsWritten(vin) \/ Contains(vin, ";")) => vout \in ValidationErrors
        /\ ToUpper(vin) \in AcceptedShapes => vout = ""

\* C10 (amended): validateSQL rejects every text that is empty, or that,
\* with its leading and trailing white space removed, does not start with
\* SELECT or holds a disallowed keyword followed by a space, or that holds
\* ';' anywhere; it accepts the two sample queries in any letter case.
C10_ValidatorRulesOnTrimmedText ==
    vout # "none" =>
        /\ (vin = "" \/ RejectedAsWritten(TrimSpace(vin)) \/ Contains(vin, ";"))
              => vout \in ValidationErrors
        /\ ToUpper(vin) \in AcceptedShapes => vout = ""

\* C10 witness: a query in mixed case that starts with SELECT and reads from
\* swaps is rejected for a disallowed keyword inside a string literal.
C10_Witness ==
    /\ vin = "SeLeCt X fRoM sWaPs WHERE note = 'Update me'"
    /\ vout = "disallowed SQL keyword"

\* The word of text that starts at position p (words are separated by white space)
WordAt(text, p) ==
    LET ends == {k \in p..Len(text) :
                    k = Len(text) \/ InString(CharAt(text, k + 1), WhiteSpace)}
    IN SubSeq(text, p, SetMin(ends))

\* 0-based offsets of the word FROM in an upper-cased text
FromOffsets(upper) ==
    {i \in Occurrences(upper, "FROM") :
        /\ i = 0 \/ InString(CharAt(upper, i), WhiteSpace)
        /\ i + 5 <= Len(upper)
        /\ InString(CharAt(upper, i + 5), WhiteSpace)}

\* The tables a query reads: the word after each FROM, upper-cased
FromTables(text) ==
    LET upper == ToUpper(text)
        nameStarts(i) == {p \in (i + 5)..Len(upper) : ~InString(CharAt(upper, p), WhiteSpace)}
    IN {WordAt(upper, SetMin(nameStarts(i))) : i \in {j \in FromOffsets(upper) : nameStarts(j) # {}}}

\* C11: every query validateSQL accepts reads from swaps or solana.swaps and
\* from no other table.
C11_OnlySwapsTableAccepted ==
    vout = "" => FromTables(vin) \subseteq {"SWAPS", "SOLANA.SWAPS"}

\* The original C12: when the LLM answers 'DROP TABLE swaps;' the agent fails
\* with the rule "disallowed SQL keyword", and the 500 response carries that
\* rule in its details.
C12_DropTableDisallowedKeyword ==
    (apc = "responded" /\ llmResp = "DROP TABLE swaps;") =>
        /\ askErr = "disallowed SQL keyword"
        /\ aiResp.code = 500
        /\ aiResp.details = [key |-> "err", value |-> "disallowed SQL keyword"]

\* C12: when the LLM answers 'DROP TABLE swaps;' the agent fails with the rule
\* "only SELECT queries are allowed", nothing is executed or summarised, and the
\* API answers 500 "ai ask failed", carrying that rule in its details in
\* developer mode and no details otherwise.
C12_DropTableRejected ==
    (apc \in {"returned", "responded"} /\ llmResp = "DROP TABLE swaps;") =>
        /\ askErr = "only SELECT queries are allowed"
        /\ ~ranQuery
        /\ ~ranSummary
        /\ "DROP TABLE swaps" \notin executed
        /\ "DROP TABLE swaps;" \notin executed
        /\ apc = "responded" =>
              /\ aiResp.code = 500
              /\ aiResp.error = "ai ask failed"
              /\ aiResp.details =
                    IF devMode
                    THEN [key |-> "err", value |-> "only SELECT queries are allowed"]
                    ELSE NoDetails

C12_Witness ==
    /\ apc = "responded"
    /\ llmResp = "DROP TABLE swaps;"
    /\ devMode
    /\ aiResp.code = 500
    /\ aiResp.details.value = "only SELECT queries are allowed"

\* C13: with an API key configured, every request whose X-API-Key header is
\* missing or differs from it is answered 401 and reaches no handler; with no
\* API key configured, requests reach the handler without the header.
C13_KeyAuthAnswers401 ==
    lastResp # NoRequest =>
        /\ (apiKey # "" /\ lastResp.key # apiKey) =>
              (lastResp.status = 401 /\ ~lastResp.reached)
        /\ (apiKey = "" /\ lastResp.route = HealthRoute) => lastResp.reached

\* The part of C13 that holds: a request without the right key reaches no
\* handler and is answered 400 or 401.
C13_NoHandlerWithoutKey ==
    (lastResp # NoRequest /\ apiKey # "" /\ lastResp.key # apiKey) =>
        (lastResp.status \in {400, 401} /\ ~lastResp.reached)

\* the requests of client c that reached the limiter, in order
ClientLog(c) == SelectSeq(askLog, LAMBDA e : e.client = c)

\* C14: when a client whose bucket is full sends three consecutive requests
\* to POST /v1/ai/ask with less than 5 seconds from the first to the third,
\* the first two are let through to AIAsk and the third is refused; the next
\* request of that client that is let through comes no earlier than 5 seconds
\* after the first, when one token has been refilled.  A request let through
\* carries the status AIAsk gives it, a refused one is answered 429 and does
\* not reach AIAsk.
C14_BurstOfTwoThenLimited ==
    /\ \A c \in Clients :
          LET log == ClientLog(c) IN
          \A i \in 1..(Len(log) - 2) :
              (log[i].level = Capacity /\ log[i + 2].time - log[i].time < RefillSeconds) =>
                  /\ log[i].allowed
                  /\ log[i + 1].allowed
                  /\ ~log[i + 2].allowed
                  /\ \A j \in (i + 3)..Len(log) :
                        (log[j].allowed /\ \A k \in (i + 3)..(j - 1) : ~log[k].allowed) =>
                            log[j].time >= log[i].time + RefillSeconds
    /\ (lastResp.route = AskRoute /\ KeyAuth(lastResp.key) = 0) =>
          /\ askLog # <<>>
          /\ askLog[Len(askLog)].client = lastResp.client
          /\ IF askLog[Len(askLog)].allowed
             THEN lastResp.reached /\ lastResp.status \in AskStatuses
             ELSE ~lastResp.reached /\ lastResp.status = 429

\* C14 witness: one client, bucket full, is answered 200, 200 and 429 within
\* 5 seconds and is let through again once 5 seconds have passed.
C14_Witness ==
    \E c \in Clients :
        LET log == ClientLog(c) IN
        /\ Len(log) = 4
        /\ log[1].level = Capacity
        /\ log[3].time - log[1].time < RefillSeconds
        /\ log[1].allowed /\ log[2].allowed /\ ~log[3].allowed /\ log[4].allowed
        /\ log[4].time = log[1].time + RefillSeconds
        /\ lastResp.client = c
        /\ lastResp.status = 200

\* C15: after Stop has returned the poller is terminal: it starts no tick,
\* makes no RPC request, hands no event to the handler, and no later Start
\* brings it back.
C15_StopIsTerminal == stopped => afterStop = {}

\* the Start calls that entered the polling loop
Entered == {i \in StartCalls : lpc[i] \notin {"notcalled", "refused"}}

\* C16: the poller is started at most once: of all Start calls, at most one
\* ever enters the polling loop, and every other one returns an error.
C16_StartedAtMostOnce == Cardinality(Entered) <= 1

\* the Start calls whose loop is inside a tick
InTick == {i \in StartCalls : lpc[i] \in {"rpc", "process"}}

\* C17: whatever Start, Stop and cancellation calls are made, at most one
\* tick is in progress, so that no two ticks read or write the cursor
\* concurrently.
C17_AtMostOneTick == Cardinality(InTick) <= 1

\* C18: the first tick, which finds the cursor empty, records the baseline
\* and hands no swap to the handler; every swap handed to the handler comes
\* from a later tick, so it is newer than the baseline.
C18_FirstTickEmitsNothing == hswap # 0 => hswap > baseline

CallBoundedAndStopsAtSuccess ==
    /\ Len(requests) <= maxRetries + 1
    /\ rpcPc # "idle" => (Len(requests) >= 1 \/ rpcPc = "request")
    /\ \A k \in 1..Len(requests) :
          requests[k] = "200ok" => (k = Len(requests) /\ rpcPc = "returned")
    /\ rpcRet = "nil" <=> (requests # <<>> /\ requests[Len(requests)] = "200ok")

\* all max_retries + 1 attempts have been made
AllAttemptsMade == rpcPc = "returned" /\ Len(requests) = maxRetries + 1

\* The original C20: one Call makes the initial request and at most
\* max_retries more; it returns success at the first attempt answered 200
\* with a decodable body and makes no request after it; when every attempt
\* fails it returns "max retries exceeded" carrying the last failure.
C20_RetriesThenMaxRetriesExceeded ==
    /\ CallBoundedAndStopsAtSuccess
    /\ (AllAttemptsMade /\ \A k \in 1..Len(requests) : requests[k] # "200ok") =>
          rpcRet = "max retries exceeded: " \o lastErr

\* C20: one Call makes the initial request and at most max_retries more; it
\* returns success at the first attempt answered 200 with a decodable body
\* and makes no request after it; when all max_retries + 1 attempts fail with
\* a transport error or a status other than 200 it returns "max retries
\* exceeded" carrying the last failure; an attempt answered 200 with a body
\* that does not decode ends the call at once with "failed to unmarshal
\* response".
C20_RetriesOnRequestFailure ==
    /\ CallBoundedAndStopsAtSuccess
    /\ (AllAttemptsMade /\ \A k \in 1..Len(requests) : requests[k] \in RequestFailures) =>
          rpcRet = "max retries exceeded: " \o DoRequestError(requests[Len(requests)])
    /\ \A k \in 1..Len(requests) :
          requests[k] = "200bad" =>
              /\ k = Len(requests)
              /\ rpcPc = "returned"
              /\ rpcRet = "failed to unmarshal response"

\* C20 witness: with two retries configured, three attempts have failed and
\* Call has returned "max retries exceeded" with the last failure.
C20_Witness ==
    /\ maxRetries = 2
    /\ requests = <<"transport", "500", "429">>
    /\ rpcPc = "returned"
    /\ rpcRet = "max retries exceeded: rate limited (429)"

\* C21: an attempt answered with a status other than 200, 429 and 5xx (404
\* here) is not retried: it is the last request of the call.
C21_NoRetryOnOtherStatus ==
    \A k \in 1..Len(requests) :
        requests[k] = "404" => (k = Len(requests) /\ rpcPc = "returned")

\* The part of C21 that holds: after a transport error, a 429 or a 500 the
\* call goes on to another attempt while attempts are left.
C21_RetriesTransportClass ==
    \A k \in 1..Len(requests) :
        (requests[k] \in {"transport", "429", "500"} /\ k = Len(requests)
            /\ rpcPc = "returned" /\ rpcRet # "context canceled") => k = maxRetries + 1

RECURSIVE Pow2(_)
Pow2(n) == IF n = 0 THEN 1 ELSE 2 * Pow2(n - 1)

RECURSIVE SumSeq(_)
SumSeq(s) == IF s = <<>> THEN 0 ELSE s[1] + SumSeq(Tail(s))

\* C22: the wait before the k-th retry is retry_backoff * 2^(k-1); a run of
\* r responses with status 429 followed by a decodable 200 succeeds after a
\* total wait of retry_backoff * (2^r - 1); and once the ctx is cancelled
\* during a wait, the call makes no further request and returns the
\* cancellation error.
C22_BackoffDoubles ==
    /\ \A k \in 1..Len(waits) : waits[k] = retryBackoff * Pow2(k - 1)
    /\ (rpcRet = "nil" /\ \A k \in 1..(Len(requests) - 1) : requests[k] = "429") =>
          /\ Len(waits) = Len(requests) - 1
          /\ SumSeq(waits) = retryBackoff * (Pow2(Len(requests) - 1) - 1)
    /\ waitCancelled =>
          /\ rpcPc \in {"wait", "returned"}
          /\ rpcPc = "returned" => rpcRet = "context canceled"
          /\ Len(requests) = Len(waits) + 1

\* C22 witness: two 429 responses and then a 200 have succeeded after waits
\* of b and 2b, with b = 2.
C22_Witness ==
    /\ retryBackoff = 2
    /\ requests = <<"429", "429", "200ok">>
    /\ rpcRet = "nil"
    /\ waits = <<2, 4>>

\* C22 witness of the cancellation: a call cancelled during its second wait
\* has returned the cancellation error after two requests.
C22_WitnessCancelled ==
    /\ waitCancelled
    /\ rpcPc = "returned"
    /\ Len(requests) = 2

\* the invariants of a SwapEvent
WellFormed(e) ==
    /\ e.amountIn > 0
    /\ e.amountOut > 0
    /\ e.tokenIn # e.tokenOut
    /\ e.price = [num |-> e.amountOut, den |-> e.amountIn]

\* C23: every SwapEvent the decoder emits has amount_in > 0, amount_out > 0,
\* token_in # token_out and price = amount_out / amount_in, and its amounts
\* are balance changes of the transaction; a transaction that gives no such
\* event gives no event at all, and the handler is not invoked for it.
C23_EmittedSwapsWellFormed ==
    /\ dpc # "ready" =>
          /\ dres.kind = "swap" =>
                /\ WellFormed(dres)
                /\ LET ch == BalanceChanges(dmeta.pre, dmeta.post) IN
                   \E i, j \in AccountIndexes :
                       /\ ch[i] = 0 - dres.amountIn
                       /\ ch[j] = dres.amountOut
                       /\ getTokenSymbol(MintOf[i]) = dres.tokenIn
                       /\ getTokenSymbol(MintOf[j]) = dres.tokenOut
          /\ dres.kind # "swap" => dhandled = <<>>
    /\ \A k \in 1..Len(dhandled) : dhandled[k] = dres /\ WellFormed(dhandled[k])
    /\ dpc = "done" => (dhandled # <<>> <=> dres.kind = "swap")

\* C23 witness: a swap of SOL for USDC has been handed to the handler, and
\* the transaction also moved wrapped SOL into a second account.
C23_Witness ==
    /\ dpc = "done"
    /\ Len(dhandled) = 1
    /\ dhandled[1].pair = "SOL/USDC"
    /\ Len(dmeta.post) = 3

\* the sink calls ProcessSwap has made for the event in hand
HandlerOps == {hlog[k].op : k \in 1..Len(hlog)}

Succeeded(op) == \E k \in 1..Len(hlog) : hlog[k].op = op /\ hlog[k].ok

\* no sink call has been made twice for the event in hand
NoStepRerun == \A j, k \in 1..Len(hlog) : j # k => hlog[j].op # hlog[k].op

\* ProcessSwap has gone through every step, whatever the cache calls
\* returned, and its return depends on the insert alone.
ProcessedInFull ==
    /\ {"LPush", "UpdatePrice", "InsertSwap"} \subseteq HandlerOps
    /\ "LTrim" \in HandlerOps <=> Succeeded("LPush")
    /\ "PublishSwap" \in HandlerOps <=> Succeeded("InsertSwap")
    /\ hret = IF Succeeded("InsertSwap") THEN "ok" ELSE "err"

\* C24: a failure of AddRecentSwap, UpdatePrice or PublishSwap does not fail
\* the event: when ProcessSwap returns it has attempted the cache write, the
\* price update and the insert, the publish too when the insert succeeded,
\* and it returns success exactly when the insert succeeded; no step is run
\* a second time for the event, failed or not.
C24_CacheFailuresNotFatal ==
    /\ NoStepRerun
    /\ pc = "handled" => ProcessedInFull

\* C24 witness: ProcessSwap has returned success although the cache write
\* and the publish failed.
C24_Witness ==
    /\ pc = "handled"
    /\ hret = "ok"
    /\ ~Succeeded("LPush")
    /\ ~Succeeded("PublishSwap")
    /\ "PublishSwap" \in HandlerOps

\* C25: the forwarder never blocks on the consumer: whenever it has a
\* message in hand its step can be taken; when swapChan holds its full
\* capacity the event is dropped and the channel left as it is, when there is
\* room the event is put in; the channel never holds more than its capacity;
\* and the publisher's step can always be taken, whatever the consumer does.
C25_ForwarderNeverBlocks ==
    [][/\ buffered' <= SwapChanCap
       /\ subPc = "send" => ENABLED FwdSend
       /\ \A m \in Messages : ENABLED PublishLive(m)
       /\ (subPc = "send" /\ subPc' = "select" /\ inhand = "swap") =>
             IF buffered = SwapChanCap
             THEN buffered' = SwapChanCap /\ lastFwd' = "dropped"
             ELSE buffered' = buffered + 1 /\ lastFwd' = "sent"]_vars

\* C25 witness: an event was dropped at a full channel, the consumer has
\* drained the channel since, and a later event has been delivered.
C25_Witness ==
    /\ everDropped
    /\ lastFwd = "sent"
    /\ buffered = 1
    /\ subPc = "select"
    /\ ~subCtxDone

\* C26: after the subscription's ctx is cancelled, swapChan is eventually
\* closed and the subscription released; the channel is never closed twice
\* and no event is sent on it after it has been closed.
C26_CancelClosesChannel ==
    /\ [](closes <= 1 /\ ~sentAfterClose)
    /\ subCtxDone ~> (closes = 1 /\ ~pubsubOpen /\ subPc = "exited")

\* C26 witness: the ctx was cancelled with events still in the channel, and
\* the goroutine has released the subscription and closed the channel.
C26_Witness ==
    /\ subCtxDone
    /\ closes = 1
    /\ ~pubsubOpen
    /\ subPc = "exited"
    /\ buffered > 0


\* C27: AddRecentSwap is all-or-nothing: when it returns an error
\* swaps:recent is exactly as it was before the call, and when it returns
\* nil the new event is the first entry and the list holds at most
\* MaxRecentSwaps entries.  (In the state "add_ltrim" the call has prepended
\* its entry, so the list before the call is the tail of the list.)
C27_AddRecentSwapAllOrNothing ==
    [][/\ (pc = "add_lpush" /\ pc' = "price") => ring' = ring
       /\ (pc = "add_ltrim" /\ pc' = "price") =>
             IF hlog'[Len(hlog')].ok
             THEN /\ Head(ring') = Marshal(SwapEvent(hswap))
                  /\ Len(ring') <= MaxRecentSwaps
             ELSE ring' = Tail(ring)]_vars

\* C28: GetRecentSwaps(limit) returns at most limit events, in list order
\* from the head: exactly the decodable ones among the first limit entries
\* of swaps:recent, each decoded.  It returns an error only when the LRANGE
\* itself failed, never because of a malformed entry.
DecodableAmongFirst(limit) == {i \in 1..Min(limit, Len(ring)) : Decodable(ring[i])}
RankAmongFirst(limit, i) == Cardinality({j \in DecodableAmongFirst(limit) : j <= i})

C28_GetRecentSwapsSkipsMalformed ==
    (rdPc = "done" /\ rdCall.op = "GetRecentSwaps") =>
        /\ rdErr = "" <=> rdReply.ok
        /\ rdErr = "" =>
             /\ Len(rdOut) <= rdCall.arg
             /\ Len(rdOut) = Cardinality(DecodableAmongFirst(rdCall.arg))
             /\ \A i \in DecodableAmongFirst(rdCall.arg) :
                  rdOut[RankAmongFirst(rdCall.arg, i)] = Unmarshal(ring[i])

\* a call with limit 2 on a list of three entries whose head is malformed
C28_Witness ==
    /\ rdPc = "done"
    /\ rdCall = [op |-> "GetRecentSwaps", arg |-> 2]
    /\ Len(ring) = 3
    /\ ring[1] = Malformed
    /\ Decodable(ring[2])
    /\ rdErr = ""
    /\ rdOut = <<Unmarshal(ring[2])>>

\* C29 as stated: GetPrice(t) returns 0 without error when no UpdatePrice(t, .)
\* has succeeded and otherwise the price of the most recent successful
\* UpdatePrice(t, .); GET /v1/prices/<t> with no prior write answers 200
\* with price 0.
PriceAsked == rdPc = "idle" /\ rdPc' = "done" /\ rdCall'.op = "Price" /\ rdStatus' # 400
LastPrice(t) == IF t \in DOMAIN lastUpdate /\ lastUpdate[t].set THEN lastUpdate[t].price ELSE 0

C29_GetPriceAlwaysAnswers ==
    [][PriceAsked =>
         /\ rdErr' = ""
         /\ rdOut' = LastPrice(rdCall'.arg)
         /\ rdStatus' = 200]_vars

\* C29, amended: when the GET of the key is answered, GetPrice(t) returns 0
\* without error if no UpdatePrice(t, .) has succeeded and otherwise the
\* price of the most recent successful UpdatePrice(t, .), and the API answers
\* 200 with that price; when the GET fails, GetPrice returns an error and
\* the API answers 500.
C29_GetPriceWhenAnswered ==
    [][PriceAsked =>
         IF rdReply'.ok
         THEN /\ rdErr' = ""
              /\ rdOut' = LastPrice(rdCall'.arg)
              /\ rdStatus' = 200
         ELSE /\ rdErr' = "failed to get price"
              /\ rdStatus' = 500]_vars

\* GET /v1/prices/XYZ answered 200 with price 0 while other prices are set
C29_Witness ==
    /\ rdPc = "done"
    /\ rdCall = [op |-> "Price", arg |-> "XYZ"]
    /\ rdStatus = 200
    /\ rdOut = 0
    /\ rdErr = ""
    /\ lastUpdate["SOL"].set

\* GET /v1/prices/sol answered with the two-digit price last written
C29_WitnessWritten ==
    /\ rdPc = "done"
    /\ rdCall = [op |-> "Price", arg |-> "SOL"]
    /\ rdStatus = 200
    /\ rdOut = 10
    /\ prices["SOL"] = StringValue("10")

\* C30: Upsert, Get and Delete accept a key if and only if it consists of 1
\* to 128 characters drawn from letters, digits, '.', '_' and '-'; for any
\* other key they return the invalid-key error and leave the flag values
\* and the index as they were.
AllowedKeyChar(c) ==
    \/ InString(c, LowerLetters)
    \/ InString(c, UpperLetters)
    \/ InString(c, DigitChars)
    \/ c \in {".", "_", "-"}
WellFormedKey(k) ==
    /\ Len(k) \in 1..128
    /\ \A i \in 1..Len(k) : AllowedKeyChar(CharAt(k, i))

WellFormedKeys == {k \in FlagKeys : WellFormedKey(k)}

C30_KeyValidation ==
    [][/\ (flagRet'.err = "invalid flag key") <=> flagRet'.key \notin WellFormedKeys
       /\ flagRet'.key \notin WellFormedKeys => (rdb' = rdb /\ lastWrite' = lastWrite)]_vars

\* the key of 128 characters is stored, and the call with the key of 129
\* characters has returned the invalid-key error
C30_Witness ==
    /\ rdb[flagKey(LongestKey)].type = "string"
    /\ Len(LongestKey) = 128
    /\ flagRet = [op |-> "Upsert", key |-> LongestKey \o "a", err |-> "invalid flag key"]

\* Get of a key with a colon has returned the invalid-key error
C30_WitnessGet ==
    /\ rdb[flagKey("a")].type = "string"
    /\ flagRet = [op |-> "Get", key |-> "a:b", err |-> "invalid flag key"]

\* C31: after SIGINT or SIGTERM the API process does not exit until the
\* server's Shutdown has completed, that is until all in-flight requests
\* have finished or the 10-second deadline has expired; s.closed, on which
\* WaitClosed waits, is closed only when Shutdown has completed.
C31_ExitAfterShutdown ==
    /\ apiMain = "exited" => (sigPc = "done" /\ (cutOff = 0 \/ waited = ShutdownDeadline))
    /\ srvClosed => sigPc = "done"

\* C32: the cache and store connections are closed only after the poller
\* has stopped, and no ProcessSwap step (cache write, store insert, publish)
\* begins after the connections have been closed.
C32_CloseAfterPollerStops ==
    [][/\ (~connsClosed /\ connsClosed') => pc = "returned"
       /\ connsClosed => Len(hlog') <= Len(hlog)]_vars

\* C33: the sum of the values of the swaps recorded within any rolling
\* 24-hour window never exceeds DailyLimitSOL.
RecordedIn(t) == SelectSeq(recorded, LAMBDA r : r.timestamp > t - WindowUnits /\ r.timestamp <= t)

C33_DailyLimitHolds ==
    \A t \in 0..MaxRiskTime : SumAmounts(RecordedIn(t)) <= dailyLimit

\* C34: within one tick getTransaction is called and the handler invoked for
\* the batch's signatures one at a time in the order the RPC returned them:
\* at every point of the tick exactly the entries before the loop index (and
\* the current one once its fetch is made) that have a null err have been
\* fetched, the handler runs for the current entry only, and the cache
\* entries written for the batch lie in swaps:recent in RPC order (the one
\* written last nearest the head); an entry whose err is non-null is never
\* fetched, handed to the handler or written.
BatchPos(s) == CHOOSE k \in 1..Len(batch) : batch[k] = s
BatchWrites == {i \in 1..Len(ring) : Decodable(ring[i]) /\ Unmarshal(ring[i]).signature \in SeqToSet(batch)}

C34_BatchInRpcOrder ==
    /\ \A i \in 1..Len(batch) :
         IF txKind[batch[i]] = "failed"
         THEN /\ batch[i] \notin fetched
              /\ hswap # batch[i]
              /\ \A j \in BatchWrites : Unmarshal(ring[j]).signature # batch[i]
         ELSE batch[i] \in fetched <=> (i < idx \/ (i = idx /\ pc # "processing"))
    /\ hswap # 0 => (idx \in 1..Len(batch) /\ batch[idx] = hswap)
    /\ \A i, j \in BatchWrites :
         i < j => BatchPos(Unmarshal(ring[i]).signature) > BatchPos(Unmarshal(ring[j]).signature)
    /\ \A j \in BatchWrites : BatchPos(Unmarshal(ring[j]).signature) <= idx

\* a tick over three signatures whose second has a non-null err: the first
\* and the third have been written to the cache, in that order
C34_Witness ==
    /\ Len(batch) = 3
    /\ txKind[batch[2]] = "failed"
    /\ batch[2] \in errSkipped
    /\ idx = 3
    /\ Len(ring) >= 2
    /\ ring[1] = Marshal(SwapEvent(batch[3]))
    /\ ring[2] = Marshal(SwapEvent(batch[1]))

\* C35: the decoder works on one net delta per mint, the sum of the post
\* amounts minus the sum of the pre amounts over all token accounts of the
\* mint (accounts listed in only one of the arrays included); the change
\* list has exactly one entry per mint with non-zero delta, and a
\* transaction with fewer than two such mints is rejected.
RECURSIVE SumOfMint(_, _)
SumOfMint(mint, balances) ==
    IF balances = <<>> THEN 0
    ELSE (IF balances[1].mint = mint THEN balances[1].uiAmount ELSE 0)
             + SumOfMint(mint, Tail(balances))

MintDelta(mint, meta) == SumOfMint(mint, meta.post) - SumOfMint(mint, meta.pre)
NonZeroMints(meta) == {m \in {MintOf[i] : i \in AccountIndexes} : MintDelta(m, meta) # 0}

C35_OneDeltaPerMint ==
    (dpc # "ready" /\ dmeta.state = "ok" /\ Len(dmeta.pre) >= 2 /\ Len(dmeta.post) >= 2) =>
        LET changes == NonZeroChanges(BalanceChanges(dmeta.pre, dmeta.post), dmeta.post) IN
        /\ Len(changes) = Cardinality(NonZeroMints(dmeta))
        /\ \A m \in NonZeroMints(dmeta) :
             \E i \in 1..Len(changes) : changes[i] = [mint |-> m, amount |-> MintDelta(m, dmeta)]
        /\ Cardinality(NonZeroMints(dmeta)) < 2 => dres = NoSwap

\* C36: a signature whose getTransaction call fails or whose transaction the
\* decoder rejects is final: the tick goes on with the next signature of the
\* batch, and the signature is never fetched again, is not among what a
\* later getSignaturesForAddress returns, and is never handed to the handler
\* or written to a sink.
RingSignatures == {Unmarshal(ring[i]).signature : i \in {j \in 1..Len(ring) : Decodable(ring[j])}}

ListReturns == listPc # "done" /\ listPc' = "done"
HasFlag(db, k) == ValidateKey(k) /\ db[flagKey(k)].type = "string" /\ Decodable(db[flagKey(k)].val)
ListedWell(out, keys, db) ==
    /\ \A e \in out : /\ e[1] \in keys
                      /\ HasFlag(db, e[1])
                      /\ e[2] = UnmarshalFlag(db[flagKey(e[1])].val)
    /\ \A k \in keys : HasFlag(db, k) => \E e \in out : e[1] = k

C37_ListNeverFails ==
    [][(listPc # listPc' => rdb' = rdb)
       /\ (ListReturns => (listErr' = "" /\ ListedWell(listOut', listKeys', rdb)))]_vars

\* C37, amended: List fails only when SMEMBERS or MGET returns an error;
\* otherwise it never returns an entry without a valid value (as above), and
\* in both cases it does not modify the store.
C37_ListFailsOnlyOnCommandError ==
    [][(listPc # listPc' => rdb' = rdb)
       /\ (ListReturns =>
             /\ listErr' # "" <=> (faults' # faults \/ (listPc # "mget" /\ rdb[indexKey].type = "string"))
             /\ listErr' = "" => ListedWell(listOut', listKeys', rdb)
             /\ listErr' # "" => listOut' = {})]_vars

\* List read the index with "a" and an invalid member in it, "a" was deleted
\* by another client, and List returned no entry and no error
C37_Witness ==
    /\ listPc = "done"
    /\ listKeys = {"a", "a b"}
    /\ lastWrite["a"].op = "delete"
    /\ flagRet = [op |-> "Delete", key |-> "a", err |-> ""]
    /\ listOut = {}
    /\ listErr = ""
    /\ faults = 0

\* C38: for every event processed with token_out T and price p (its
\* UpdatePrice done), a later GET /v1/prices/T that Redis answers, before any
\* newer event with the same token_out, answers 200 with price p, for every
\* symbol T the decoder can produce.  A request for T is one whose
\* parameter normalises as T does.
NormalisedSymbol == [T \in DecoderSymbols |-> ToUpper(TrimSpace(T))]

C38_PriceOfEverySymbol ==
    [][(PriceAsked /\ rdReply'.ok) =>
         \A T \in DecoderSymbols :
            (NormalisedSymbol[T] = rdCall'.arg /\ lastUpdate[T].set) =>
                (rdStatus' = 200 /\ rdOut' = lastUpdate[T].price)]_vars

\* C39: the decoder's result depends only on the set of pre and post
\* token-balance entries, not on their order: a transaction whose pre and
\* post arrays are permutations of those of the transaction decoded is
\* rejected if that one was, and otherwise decoded to the same token_in,
\* amount_in, token_out and amount_out.
Reordered(seq) == {[i \in 1..Len(seq) |-> seq[f[i]]] : f \in Permutations(1..Len(seq))}
SameDecoding(r1, r2) ==
    IF r1.kind = "swap"
    THEN /\ r2.kind = "swap"
         /\ r2.tokenIn = r1.tokenIn
         /\ r2.amountIn = r1.amountIn
         /\ r2.tokenOut = r1.tokenOut
         /\ r2.amountOut = r1.amountOut
    ELSE r2.kind # "swap"

C39_OrderIndependent ==
    (dpc # "ready" /\ dmeta.state = "ok") =>
        \A pre \in Reordered(dmeta.pre), post \in Reordered(dmeta.post) :
            SameDecoding(dres, parseTransaction([state |-> "ok", pre |-> pre, post |-> post]))

====
